---------------------------- MODULE Spec2Model ----------------------------
(***************************************************************************)
(* Model of the event-booking ETL of Site-Eventos.                         *)
(*                                                                         *)
(*   etl_preprocessor.py   get_google_sheet_data, calculos_automaticos,    *)
(*                         run_full_etl, format_cols                       *)
(*                                                                         *)
(* A table (pandas DataFrame) is a record [cols, rows]: the set of its     *)
(* column names and the sequence of its rows.  A row is a record with one  *)
(* field per modelled column; a cell is a tagged value                     *)
(*     [t |-> "nan"]            NaN / NaT / missing                        *)
(*     [t |-> "txt",  v |-> cs] a string, as a sequence of characters      *)
(*     [t |-> "dstr", v |-> d]  a string that spells a date, d = [f, a, b, *)
(*                              c]: "a/b/c" (f = "slash"), "a-b-c" ("iso") *)
(*     [t |-> "num",  v |-> n]  a number                                   *)
(*     [t |-> "bool", v |-> b]  a boolean                                  *)
(*     [t |-> "date", v |-> d]  a timestamp, d = [y, m, d]                 *)
(* Column names are written in ASCII: preco = preço, preco_kids =          *)
(* preço_kids, cardapio = cardápio.                                        *)
(*                                                                         *)
(* The analysis layer (etl_utils.py, charts.py) works on the processed     *)
(* table: [cols, rows, cat], cat being the categories of the column Etapa  *)
(* when it has the category dtype.                                         *)
(*                                                                         *)
(* Four specifications share the variables:                                *)
(*   SpecCalc  one call of calculos_automaticos on a one-record table      *)
(*   SpecPass  the transformation pass of run_full_etl, lines 162-321,     *)
(*             entered with df bound to the extracted current table        *)
(*   Spec      run_full_etl from its entry, as written                     *)
(*   SpecView  calls of process_data, run_filter, dre, create_table and    *)
(*             PainelEventos._gerar_dataframes_analiticos on one table     *)
(***************************************************************************)
EXTENDS Integers, Sequences, FiniteSets, TLC

VARIABLES pc, current_src, sheet, legacy_src, df, df_anos_ant, df_thai, calc_in, err,
          view, filter_class, call, ret, log

\* the variables of the ETL and those of the analysis layer (etl_utils.py,
\* charts.py): the table the caller holds, its FilterSelection, the last
\* call and its arguments,
\* what it returned, what it printed
etl_vars == <<pc, current_src, sheet, legacy_src, df, df_anos_ant, df_thai, calc_in, err>>
view_vars == <<view, filter_class, call, ret, log>>

vars == <<pc, current_src, sheet, legacy_src, df, df_anos_ant, df_thai, calc_in, err,
          view, filter_class, call, ret, log>>

-----------------------------------------------------------------------------
(* Bounds of the model *)

\* guest counts of a record handed to the calculator are 0..MaxCount
MaxCount == 2
\* prices and extra charges of a record handed to the calculator are 0..MaxPrice
MaxPrice == 2

-----------------------------------------------------------------------------
(* Cells *)

NaN == [t |-> "nan"]
Txt(cs) == [t |-> "txt", v |-> cs]
Num(n) == [t |-> "num", v |-> n]
Bool(b) == [t |-> "bool", v |-> b]
DStr(f, a, b, c) == [t |-> "dstr", v |-> [f |-> f, a |-> a, b |-> b, c |-> c]]
Date(y, m, d) == [t |-> "date", v |-> [y |-> y, m |-> m, d |-> d]]

IsNaN(c) == c.t = "nan"

\* cell equality as pandas' == sees it: NaN equals nothing, values of
\* different types are unequal
CellEq(a, b) == a.t = b.t /\ a.t # "nan" /\ a.v = b.v

EmptyTable == [cols |-> {}, rows |-> <<>>]

\* a variant that takes a table with a header for non-empty
IsEmpty_noColumns(tbl) == tbl.cols = {}

\* DataFrame.empty: no rows or no columns
IsEmpty(tbl) == tbl.cols = {} \/ Len(tbl.rows) = 0

SeqMap(F(_), s) == [i \in 1..Len(s) |-> F(s[i])]

-----------------------------------------------------------------------------
(* Strings as sequences of one-character strings *)

LowerLetters == <<"a","b","c","d","e","f","g","h","i","j","k","l","m",
                  "n","o","p","q","r","s","t","u","v","w","x","y","z","a~">>
UpperLetters == <<"A","B","C","D","E","F","G","H","I","J","K","L","M",
                  "N","O","P","Q","R","S","T","U","V","W","X","Y","Z","A~">>

IsLower(ch) == \E i \in 1..Len(LowerLetters) : LowerLetters[i] = ch
IsUpper(ch) == \E i \in 1..Len(UpperLetters) : UpperLetters[i] = ch
IsLetter(ch) == IsLower(ch) \/ IsUpper(ch)
IsSpace(ch) == ch = " "

LowerCh(ch) ==
    IF IsUpper(ch)
    THEN LowerLetters[CHOOSE i \in 1..Len(UpperLetters) : UpperLetters[i] = ch]
    ELSE ch

UpperCh(ch) ==
    IF IsLower(ch)
    THEN UpperLetters[CHOOSE i \in 1..Len(LowerLetters) : LowerLetters[i] = ch]
    ELSE ch

\* str.lower / str.casefold
StrLower(cs) == [i \in 1..Len(cs) |-> LowerCh(cs[i])]

\* str.capitalize: first character upper-case, the rest lower-case
StrCapitalize(cs) ==
    [i \in 1..Len(cs) |-> IF i = 1 THEN UpperCh(cs[i]) ELSE LowerCh(cs[i])]

\* str.title: a letter that follows a non-letter is upper-case, every other
\* letter lower-case
StrTitle(cs) ==
    [i \in 1..Len(cs) |->
        IF i = 1 \/ ~IsLetter(cs[i-1]) THEN UpperCh(cs[i]) ELSE LowerCh(cs[i])]

RECURSIVE LStrip(_)
LStrip(cs) == IF cs # <<>> /\ IsSpace(Head(cs)) THEN LStrip(Tail(cs)) ELSE cs

RECURSIVE RStrip(_)
RStrip(cs) ==
    IF cs # <<>> /\ IsSpace(cs[Len(cs)])
    THEN RStrip(SubSeq(cs, 1, Len(cs) - 1))
    ELSE cs

\* str.strip
StrStrip(cs) == RStrip(LStrip(cs))

\* str.replace(re.compile(r"\s+"), " "): every run of whitespace becomes one
\* space
RECURSIVE CollapseBlank(_)
CollapseBlank(cs) ==
    IF cs = <<>> THEN <<>>
    ELSE IF IsSpace(Head(cs))
         THEN <<" ">> \o CollapseBlank(LStrip(cs))
         ELSE <<Head(cs)>> \o CollapseBlank(Tail(cs))

-----------------------------------------------------------------------------
(* Numbers and dates read from and written to strings.  A float is carried *)
(* in tenths (one decimal digit): 25 is 2.5; an int is carried in units.   *)

Digits == <<"0","1","2","3","4","5","6","7","8","9">>

IsDigit(ch) == \E i \in 1..10 : Digits[i] = ch
DigitVal(ch) == (CHOOSE i \in 1..10 : Digits[i] = ch) - 1
AllDigits(cs) == cs # <<>> /\ \A i \in 1..Len(cs) : IsDigit(cs[i])

RECURSIVE NatOf(_)
NatOf(cs) ==
    IF cs = <<>> THEN 0
    ELSE 10 * NatOf(SubSeq(cs, 1, Len(cs) - 1)) + DigitVal(cs[Len(cs)])

RECURSIVE NatStr(_)
NatStr(n) ==
    IF n < 10 THEN <<Digits[n + 1]>>
    ELSE NatStr(n \div 10) \o <<Digits[(n % 10) + 1]>>

\* the place of the first ch in cs, 0 when there is none
IndexOf(cs, ch) ==
    IF \E i \in 1..Len(cs) : cs[i] = ch
    THEN CHOOSE i \in 1..Len(cs) : cs[i] = ch /\ \A j \in 1..(i-1) : cs[j] # ch
    ELSE 0

\* str.replace(",", ".")
CommaToDot(cs) == [i \in 1..Len(cs) |-> IF cs[i] = "," THEN "." ELSE cs[i]]

Failed == [ok |-> FALSE]
Parsed(n) == [ok |-> TRUE, v |-> n]

\* float(s), in tenths: digits, or digits "." digit (the strings of the model
\* have at most one decimal); surrounding blanks are ignored
FloatOf(cs) ==
    LET t == StrStrip(cs)
        dot == IndexOf(t, ".")
        whole == SubSeq(t, 1, dot - 1)
        frac == SubSeq(t, dot + 1, Len(t))
    IN  IF AllDigits(t) THEN Parsed(10 * NatOf(t))
        ELSE IF dot > 0 /\ AllDigits(whole) /\ frac = <<>>
             THEN Parsed(10 * NatOf(whole))
        ELSE IF dot > 0 /\ AllDigits(whole) /\ AllDigits(frac) /\ Len(frac) = 1
             THEN Parsed(10 * NatOf(whole) + NatOf(frac))
        ELSE Failed

\* int(s), in units: digits only
IntOf(cs) ==
    LET t == StrStrip(cs)
    IN  IF AllDigits(t) THEN Parsed(NatOf(t)) ELSE Failed

\* str(x) of a float carried in tenths: "2.5", "2.0"
FloatStr(n) == NatStr(n \div 10) \o <<".">> \o NatStr(n % 10)

ValidDate(y, m, d) == m \in 1..12 /\ d \in 1..31

\* pd.to_datetime(x, dayfirst=True) on one cell: "a/b/c" is day a of month b,
\* or month a when b is no month; "y-m-d" is read as written
DateOfDayFirst(c) ==
    IF c.t = "date" THEN Parsed(c.v)
    ELSE IF c.t = "dstr" /\ c.v.f = "iso" /\ ValidDate(c.v.a, c.v.b, c.v.c)
         THEN Parsed([y |-> c.v.a, m |-> c.v.b, d |-> c.v.c])
    ELSE IF c.t = "dstr" /\ c.v.f = "slash" /\ ValidDate(c.v.c, c.v.b, c.v.a)
         THEN Parsed([y |-> c.v.c, m |-> c.v.b, d |-> c.v.a])
    ELSE IF c.t = "dstr" /\ c.v.f = "slash" /\ ValidDate(c.v.c, c.v.a, c.v.b)
         THEN Parsed([y |-> c.v.c, m |-> c.v.a, d |-> c.v.b])
    ELSE Failed

\* pd.to_datetime(x) on one cell: "a/b/c" is month a, day b, or day a when a
\* is no month
DateOfMonthFirst(c) ==
    IF c.t = "date" THEN Parsed(c.v)
    ELSE IF c.t = "dstr" /\ c.v.f = "iso" /\ ValidDate(c.v.a, c.v.b, c.v.c)
         THEN Parsed([y |-> c.v.a, m |-> c.v.b, d |-> c.v.c])
    ELSE IF c.t = "dstr" /\ c.v.f = "slash" /\ ValidDate(c.v.c, c.v.a, c.v.b)
         THEN Parsed([y |-> c.v.c, m |-> c.v.a, d |-> c.v.b])
    ELSE IF c.t = "dstr" /\ c.v.f = "slash" /\ ValidDate(c.v.c, c.v.b, c.v.a)
         THEN Parsed([y |-> c.v.c, m |-> c.v.b, d |-> c.v.a])
    ELSE Failed

\* a cell to_datetime reads as NaT without complaint: NaN, NaT, ""
IsNullDate(c) == c.t = "nan" \/ (c.t = "txt" /\ c.v = <<>>)

\* Series.dt.strftime("%d/%m/%Y") on one cell
StrfDMY(c) == IF c.t = "date" THEN DStr("slash", c.v.d, c.v.m, c.v.y) ELSE NaN

-----------------------------------------------------------------------------
(* Columns *)

\* the columns of the canonical schema that the model carries
columns_manter ==
    {"local", "resp", "cardapio", "etapa", "kids", "preco_kids",
     "convidados_presentes", "convidados_previstos", "kids_presentes",
     "valor_extra", "preco", "data_contato", "data_evento",
     "manter_total_previsto"}

columns_int ==
    {"kids_presentes", "kids", "convidados_presentes", "convidados_previstos"}

columns_float == {"preco_kids", "valor_extra", "preco"}

numeric_cols == columns_float \cup columns_int

\* the columns calculos_automaticos writes
DerivedCols ==
    {"total_convidados_previsto", "valor_total_previsto",
     "total_convidados_presentes", "valor_total_realizado"}

\* the names of the legacy sheet that the canonical schema does not have
LegacyOnlyCols == {"resp_evento", "qtde_convidados", "obs_interna"}

AllCols == columns_manter \cup DerivedCols \cup LegacyOnlyCols

\* a row with every cell missing
BlankRow == [c \in AllCols |-> NaN]

\* row r with the cells of the record upd written over it
With(r, upd) == [c \in AllCols |-> IF c \in DOMAIN upd THEN upd[c] ELSE r[c]]

-----------------------------------------------------------------------------
(* calculos_automaticos, etl_preprocessor.py lines 89-121 *)

Realizado == <<"R","e","a","l","i","z","a","d","o">>
Fechado == <<"F","e","c","h","a","d","o">>

\* Series.astype(bool) on one cell: NaN, every non-empty string and every
\* date are True
AsBool(c) ==
    CASE c.t = "bool" -> c.v
      [] c.t = "num" -> c.v # 0
      [] c.t = "txt" -> c.v # <<>>
      [] OTHER -> TRUE

\* a variant of the stage test that ignores letter case
IsRealizado_anycase(r) ==
    r.etapa.t = "txt" /\ StrLower(r.etapa.v) = StrLower(Realizado)

\* df["etapa"] == "Realizado"
IsRealizado(r) == CellEq(r.etapa, Txt(Realizado))

\* a variant that trusts a value the record already carries
total_convidados_previsto_kept(r) ==
    IF IsNaN(r.total_convidados_previsto)
    THEN r.convidados_previstos.v + r.kids.v
    ELSE r.total_convidados_previsto.v

\* df["convidados_previstos"] + df["kids"]
total_convidados_previsto(r) == r.convidados_previstos.v + r.kids.v

\* a variant that prices the kids at the guest price
valor_total_previsto_oneprice(r) ==
    (r.preco.v * r.convidados_previstos.v) + (r.kids.v * r.preco.v)

\* (df.preço * df.convidados_previstos) + (df.kids * df.preço_kids)
valor_total_previsto(r) ==
    (r.preco.v * r.convidados_previstos.v) + (r.kids.v * r.preco_kids.v)

\* np.where(df["etapa"] == "Realizado", convidados_presentes + kids_presentes, 0)
total_convidados_presentes(r) ==
    IF IsRealizado(r) THEN r.convidados_presentes.v + r.kids_presentes.v ELSE 0

cond1(r) == IsRealizado(r) /\ CellEq(r.manter_total_previsto, Bool(TRUE))

cond2(r) == IsRealizado(r) /\ CellEq(r.manter_total_previsto, Bool(FALSE))

\* a variant that leaves the extra charges out
choice1_noextra(r) == r.valor_total_previsto.v

\* df["valor_total_previsto"] + df["valor_extra"], read after line 92 has
\* written the column
choice1(r) == r.valor_total_previsto.v + r.valor_extra.v

\* a variant that bills the forecast guests
choice2_previstos(r) ==
    (r.convidados_previstos.v * r.preco.v)
    + (r.kids_presentes.v * r.preco_kids.v)
    + r.valor_extra.v

choice2(r) ==
    (r.convidados_presentes.v * r.preco.v)
    + (r.kids_presentes.v * r.preco_kids.v)
    + r.valor_extra.v

\* np.select([cond1, cond2], [choice1, choice2], default=0)
valor_total_realizado(r) ==
    IF cond1(r) THEN choice1(r)
    ELSE IF cond2(r) THEN choice2(r)
    ELSE 0

\* the calculator on one record: the five column assignments in order, each
\* reading the columns as the assignments before it left them
CalcRow(r) ==
    LET r1 == With(r, [manter_total_previsto |->
                           Bool(AsBool(r.manter_total_previsto))])
        r2 == With(r1, [total_convidados_previsto |->
                           Num(total_convidados_previsto(r1))])
        r3 == With(r2, [valor_total_previsto |-> Num(valor_total_previsto(r2))])
        r4 == With(r3, [total_convidados_presentes |->
                           Num(total_convidados_presentes(r3))])
    IN  With(r4, [valor_total_realizado |-> Num(valor_total_realizado(r4))])

calculos_automaticos(tbl) ==
    [cols |-> tbl.cols \cup DerivedCols, rows |-> SeqMap(CalcRow, tbl.rows)]

-----------------------------------------------------------------------------
(* SpecCalc: one call of calculos_automaticos *)

Counts == 0..MaxCount
Prices == 0..MaxPrice

\* a value a pre-existing derived column may carry; never the recomputed one
Stale == 99

CalcEtapas == {Realizado, Fechado, StrLower(Realizado)}

\* the records handed to the calculator: typed, no missing numeric cell
CalcRecords ==
    { With(BlankRow,
           [etapa |-> Txt(e),
            manter_total_previsto |-> Bool(m),
            convidados_previstos |-> Num(g[1]),
            kids |-> Num(g[2]),
            convidados_presentes |-> Num(g[3]),
            kids_presentes |-> Num(g[4]),
            preco |-> Num(p[1]),
            preco_kids |-> Num(p[2]),
            valor_extra |-> Num(p[3]),
            total_convidados_previsto |-> old,
            valor_total_previsto |-> old,
            total_convidados_presentes |-> old,
            valor_total_realizado |-> old]) :
        e \in CalcEtapas, m \in BOOLEAN,
        g \in Counts \X Counts \X Counts \X Counts,
        p \in Prices \X Prices \X Prices,
        old \in {NaN, Num(Stale)} }

\* the analysis layer has not been called
ViewIdle ==
    /\ view = EmptyTable
    /\ filter_class = [op |-> "none"]
    /\ call = [op |-> "none"]
    /\ ret = <<>>
    /\ log = <<>>

InitCalc ==
    /\ pc = "calc_call"
    /\ current_src = [outcome |-> "none", table |-> EmptyTable]
    /\ sheet = EmptyTable
    /\ legacy_src = [outcome |-> "none", table |-> EmptyTable]
    /\ df = EmptyTable
    /\ df_anos_ant = EmptyTable
    /\ \E r \in CalcRecords :
          df_thai = [cols |-> columns_manter
                                \cup (IF IsNaN(r.valor_total_previsto)
                                      THEN {} ELSE DerivedCols),
                     rows |-> <<r>>]
    /\ calc_in = EmptyTable
    /\ err = "none"
    /\ ViewIdle

\* df_thai = calculos_automaticos(df_thai)
CalcCall ==
    /\ pc = "calc_call"
    /\ calc_in' = df_thai
    /\ df_thai' = calculos_automaticos(df_thai)
    /\ pc' = "calc_done"
    /\ UNCHANGED <<current_src, sheet, legacy_src, df, df_anos_ant, err>>
    /\ UNCHANGED view_vars

NextCalc == CalcCall

SpecCalc == InitCalc /\ [][NextCalc]_vars

-----------------------------------------------------------------------------
(* The transformation pass of run_full_etl: its blocks, as functions of    *)
(* the tables.  A block that can raise returns [ok |-> FALSE, err |-> e].  *)

Raised(e) == [ok |-> FALSE, err |-> e]
Done(tbl) == [ok |-> TRUE, tbl |-> tbl]

FALSE_cell == <<"F","A","L","S","E">>
NaoInformado == <<"N","a~","o"," ","I","n","f","o","r","m","a","d","o">>
ThaiHouse == <<"T","h","a","i"," ","H","o","u","s","e">>
Especial == <<"E","s","p","e","c","i","a","l">>

\* df.replace("", np.nan) on one cell
BlankToNaN(c) == IF c.t = "txt" /\ c.v = <<>> THEN NaN ELSE c

\* lines 184-186 on one cell: "," becomes ".", then astype(float)
TypeNumeric(c) ==
    IF c.t = "txt" THEN
        LET f == FloatOf(CommaToDot(c.v))
        IN  IF f.ok THEN Parsed(Num(f.v)) ELSE Failed
    ELSE Parsed(c)

\* a variant of the flag conversion that takes only "TRUE" for true
FlagOf_onlyTRUE(c) == Bool(CellEq(c, Txt(<<"T","R","U","E">>)))

\* np.where(df["manter_total_previsto"] == "FALSE", 0, 1).astype(bool)
FlagOf(c) == Bool(~CellEq(c, Txt(FALSE_cell)))

\* lines 176-186 on one row of the current table
TypeRow(r) ==
    LET flagged == With(r, [manter_total_previsto |->
                               FlagOf(r.manter_total_previsto)])
        blanked == [c \in AllCols |-> BlankToNaN(flagged[c])]
    IN  [c \in AllCols |->
            IF c \in numeric_cols THEN TypeNumeric(blanked[c]).v ELSE blanked[c]]

TypeRowFails(r) ==
    \E c \in numeric_cols : ~TypeNumeric(BlankToNaN(r[c])).ok

\* a variant that passes a table with a column missing on, as it came
TypeCurrent_skipping(tbl) ==
    IF ~(columns_manter \subseteq tbl.cols) THEN Done(tbl)
    ELSE IF \E i \in 1..Len(tbl.rows) : TypeRowFails(tbl.rows[i])
         THEN Raised("ValueError")
    ELSE Done([cols |-> columns_manter, rows |-> SeqMap(TypeRow, tbl.rows)])

\* lines 162-186: the current table, its columns selected and typed
TypeCurrent(tbl) ==
    IF ~(columns_manter \subseteq tbl.cols) THEN Raised("KeyError")
    ELSE IF \E i \in 1..Len(tbl.rows) : TypeRowFails(tbl.rows[i])
         THEN Raised("ValueError")
    ELSE Done([cols |-> columns_manter, rows |-> SeqMap(TypeRow, tbl.rows)])

\* lines 199-204 on one date cell of the legacy table
LegacyDate(c) ==
    IF IsNullDate(c) THEN Parsed(NaN)
    ELSE LET d == DateOfMonthFirst(c)
         IN  IF d.ok THEN Parsed(StrfDMY([t |-> "date", v |-> d.v])) ELSE Failed

\* a variant that keeps the flag a legacy row carries
LegacyFlag_kept(c) == IF IsNaN(c) THEN Bool(TRUE) ELSE FlagOf(c)

\* df_anos_ant["manter_total_previsto"] = True, on one cell
LegacyFlag(c) == Bool(TRUE)

\* the columns of the legacy table after lines 206-219
LegacyCols(cols) ==
    LET placed == cols \cup {"local"}
        renamed == (placed \ {"resp_evento", "qtde_convidados"})
                   \cup (IF "resp_evento" \in cols THEN {"resp"} ELSE {})
                   \cup (IF "qtde_convidados" \in cols
                         THEN {"convidados_previstos"} ELSE {})
    IN  (renamed \cap columns_manter) \cup {"manter_total_previsto"}

\* lines 199-219 on one row of the legacy table whose columns are cols
LegacyRow(r, cols) ==
    LET dated == With(r, [data_contato |-> LegacyDate(r.data_contato).v,
                          data_evento |-> LegacyDate(r.data_evento).v])
        placed == With(dated, [local |-> Txt(ThaiHouse)])
        renamed == With(placed,
                        [resp |-> IF "resp_evento" \in cols
                                  THEN placed.resp_evento ELSE placed.resp,
                         convidados_previstos |->
                                  IF "qtde_convidados" \in cols
                                  THEN placed.qtde_convidados
                                  ELSE placed.convidados_previstos])
        kept == [c \in AllCols |-> IF c \in columns_manter THEN renamed[c] ELSE NaN]
    IN  With(kept, [manter_total_previsto |->
                        LegacyFlag(kept.manter_total_previsto)])

\* lines 197-219: the legacy table brought to the canonical schema; an empty
\* table is left as it is
PrepareLegacy(tbl) ==
    IF IsEmpty(tbl) THEN Done(tbl)
    ELSE IF ~({"data_contato", "data_evento"} \subseteq tbl.cols)
         THEN Raised("KeyError")
    ELSE IF \E i \in 1..Len(tbl.rows) :
                \/ ~LegacyDate(tbl.rows[i].data_contato).ok
                \/ ~LegacyDate(tbl.rows[i].data_evento).ok
         THEN Raised("ValueError")
    ELSE IF "local" \in tbl.cols THEN Raised("ValueError")
    ELSE Done([cols |-> LegacyCols(tbl.cols),
               rows |-> [i \in 1..Len(tbl.rows) |-> LegacyRow(tbl.rows[i], tbl.cols)]])

\* a variant of the concatenation that puts the current rows first
Concat_currentFirst(a, b) == [cols |-> a.cols \cup b.cols, rows |-> b.rows \o a.rows]

\* pd.concat([a, b], axis=0, join="outer", ignore_index=True)
Concat(a, b) == [cols |-> a.cols \cup b.cols, rows |-> a.rows \o b.rows]

\* the day run_full_etl runs; early enough in its month for 20 more days
Today == [y |-> 2026, m |-> 11, d |-> 2]

\* dt.today().date() + pd.DateOffset(days=20)
dia == [t |-> "date", v |-> [Today EXCEPT !.d = @ + 20]]

string_cols == {"local", "cardapio"}

\* fillna(0.0).astype(float) on one cell; a string cell goes through float()
FillFloat(c) ==
    IF IsNaN(c) THEN Parsed(Num(0))
    ELSE IF c.t = "txt" THEN
        LET f == FloatOf(c.v) IN IF f.ok THEN Parsed(Num(f.v)) ELSE Failed
    ELSE Parsed(c)

\* fillna(0).astype(int) on one cell: a float is truncated, a string cell
\* goes through int()
FillInt(c) ==
    IF IsNaN(c) THEN Parsed(Num(0))
    ELSE IF c.t = "txt" THEN
        LET n == IntOf(c.v) IN IF n.ok THEN Parsed(Num(n.v)) ELSE Failed
    ELSE Parsed(Num(c.v \div 10))

\* pd.to_datetime(x, errors="coerce", dayfirst=True) on one cell
CoerceDate(c) ==
    LET d == DateOfDayFirst(c)
    IN  IF d.ok THEN [t |-> "date", v |-> d.v] ELSE NaN

FillRowFails(r) ==
    \/ \E c \in columns_float : ~FillFloat(r[c]).ok
    \/ \E c \in columns_int : ~FillInt(r[c]).ok

\* lines 228-260 on one row of the merged table
FillRow(r) ==
    LET evento == CoerceDate(r.data_evento)
        contato == CoerceDate(r.data_contato)
    IN  [c \in AllCols |->
            IF c \in string_cols THEN (IF IsNaN(r[c]) THEN Txt(NaoInformado) ELSE r[c])
            ELSE IF c \in columns_float THEN FillFloat(r[c]).v
            ELSE IF c \in columns_int THEN FillInt(r[c]).v
            ELSE IF c = "data_contato" THEN (IF IsNaN(contato) THEN evento ELSE contato)
            ELSE IF c = "data_evento" THEN (IF IsNaN(evento) THEN dia ELSE evento)
            ELSE r[c]]

\* lines 226-260: missing values filled, numbers and dates typed
FillTypes(tbl) ==
    IF \E i \in 1..Len(tbl.rows) : FillRowFails(tbl.rows[i])
    THEN Raised("ValueError")
    ELSE Done([cols |-> tbl.cols, rows |-> SeqMap(FillRow, tbl.rows)])

\* the columns that hold floats when line 272 turns every column into text
FloatTyped == columns_float \cup {"valor_total_previsto", "valor_total_realizado"}

\* x.astype(str) on one cell of column col
CellStr(col, c) ==
    CASE c.t = "nan" -> <<"n","a","n">>
      [] c.t = "txt" -> c.v
      [] c.t = "num" -> IF col \in FloatTyped THEN FloatStr(c.v) ELSE NatStr(c.v)
      [] c.t = "bool" -> IF c.v THEN <<"T","r","u","e">> ELSE <<"F","a","l","s","e">>

\* lines 271-278 on one cell: astype(str), strip, casefold, capitalize, then
\* every run of blanks becomes one blank; a timestamp becomes "y-m-d"
CleanCell(col, c) ==
    IF c.t \in {"date", "dstr"}
    THEN (IF c.t = "date" THEN DStr("iso", c.v.y, c.v.m, c.v.d) ELSE c)
    ELSE Txt(CollapseBlank(StrCapitalize(StrLower(StrStrip(CellStr(col, c))))))

\* lines 265-278: every column of the table becomes clean text
CleanStrings(tbl) ==
    [cols |-> tbl.cols,
     rows |-> [i \in 1..Len(tbl.rows) |->
                 [c \in AllCols |-> IF c \in tbl.cols
                                    THEN CleanCell(c, tbl.rows[i][c])
                                    ELSE tbl.rows[i][c]]]]

-----------------------------------------------------------------------------
(* The menu canonicalizer, lines 280-309 *)

\* the character class [Menu]
InMenuClass(ch) == ch \in {"M", "e", "n", "u"}

\* str.replace(re.compile(r"[Menu]{4}(\s)?"), ""): every run of four
\* characters of the class, and one blank after it, is removed
RECURSIVE regex_menu(_)
regex_menu(cs) ==
    IF cs = <<>> THEN <<>>
    ELSE IF Len(cs) >= 4 /\ \A i \in 1..4 : InMenuClass(cs[i])
         THEN LET rest == SubSeq(cs, 5, Len(cs))
              IN  regex_menu(IF rest # <<>> /\ IsSpace(Head(rest))
                             THEN Tail(rest) ELSE rest)
    ELSE <<Head(cs)>> \o regex_menu(Tail(cs))

\* a variant of the table whose first replacement is not in title case
Typos_lowerTarget ==
    << <<<<"K","o"," ","L","a","n","t","a">>, <<"K","o","h"," ","l","a","n","t","a">>>>,
       <<<<"K","o"," ","P","e","e"," ","P","e","e">>, <<"K","o","h"," ","P","e","e"," ","P","e","e">>>>,
       <<<<"K","o"," ","S","a","k">>, <<"K","o","h"," ","S","a","k">>>>,
       <<<<"D","i","a"," ","D","o","s"," ","N","a","m","o","r","a","d","o","s">>, <<"N","a","m","o","r","a","d","o","s">>>>,
       <<<<"K","o","h"," ","S","a","m","m","e","t">>, <<"K","o","h"," ","S","a","m","e","t">>>> >>

\* the replacements of lines 290-296, in order: <<from, to>>
Typos ==
    << <<<<"K","o"," ","L","a","n","t","a">>, <<"K","o","h"," ","L","a","n","t","a">>>>,
       <<<<"K","o"," ","P","e","e"," ","P","e","e">>, <<"K","o","h"," ","P","e","e"," ","P","e","e">>>>,
       <<<<"K","o"," ","S","a","k">>, <<"K","o","h"," ","S","a","k">>>>,
       <<<<"D","i","a"," ","D","o","s"," ","N","a","m","o","r","a","d","o","s">>, <<"N","a","m","o","r","a","d","o","s">>>>,
       <<<<"K","o","h"," ","S","a","m","m","e","t">>, <<"K","o","h"," ","S","a","m","e","t">>>> >>

\* Series.replace(a, b) chained over Typos[k..]: a whole-cell match is replaced
RECURSIVE FixTyposFrom(_, _)
FixTyposFrom(cs, k) ==
    IF k > Len(Typos) THEN cs
    ELSE FixTyposFrom(IF cs = Typos[k][1] THEN Typos[k][2] ELSE cs, k + 1)

FixTypos(cs) == FixTyposFrom(cs, 1)

fast == {<<"k","a","f","a","e">>,
        <<"m","a","-","l","i">>,
        <<"p","i","-","l","e","h">>,
        <<"k","o"," ","m","a","t","t","r","a">>,
        <<"k","o","h"," ","k","o","o","d">>}
padrao == {<<"P","h","u","k","e","t">>,
          <<"K","o","h"," ","P","e","e"," ","P","e","e">>,
          <<"K","o","h"," ","S","a","k">>,
          <<"K","o","h"," ","L","a","n","t","a">>,
          <<"K","o"," ","m","a","i"," ","T","h","o","n">>,
          <<"k","o"," ","n","o","m"," ","s","a","o">>}
economico == {<<"k","o","h"," ","s","a","m","e","t">>,
             <<"k","r","a","b">>,
             <<"k","r","a","b">>}
nao_definido == {<<"N","a~","o"," ","I","n","f","o","r","m","a","d","o">>,
                <<"a"," ","d","e","f","i","n","i","r">>}
card_river == {<<"S","u","s","h","i","-","0","1">>,
              <<"S","u","s","h","i","-","0","2">>,
              <<"S","u","s","h","i","-","0","3">>}

menu_completo ==
    { StrLower(item) :
        item \in fast \cup padrao \cup economico \cup nao_definido \cup card_river }

\* cs holds sub as a run of consecutive characters
Contains(cs, sub) ==
    \E i \in 1..(Len(cs) - Len(sub) + 1) : SubSeq(cs, i, i + Len(sub) - 1) = sub

\* a variant of the allow-list test that accepts a label holding a listed one
InMenu_contains(cs) == \E item \in menu_completo : Contains(StrLower(cs), item)

\* df_thai["cardápio"].str.lower().isin(menu_completo)
InMenu(cs) == StrLower(cs) \in menu_completo

\* lines 280-296 on one label: "Menu" removed, title case, typos replaced
MenuLabel(cs) == FixTypos(StrTitle(regex_menu(cs)))

\* lines 280-309 on one label
CanonMenu(cs) ==
    LET label == MenuLabel(cs) IN IF InMenu(label) THEN label ELSE Especial

\* lines 280-309 on the table
Canonicalize(tbl) ==
    [cols |-> tbl.cols,
     rows |-> [i \in 1..Len(tbl.rows) |->
                 With(tbl.rows[i],
                      [cardapio |-> Txt(CanonMenu(tbl.rows[i].cardapio.v))])]]

-----------------------------------------------------------------------------
(* Sort and final typing, lines 311-321 and format_cols *)

\* a variant that compares the day before the month and the year
DateStrLE_dayFirst(a, b) ==
    \/ a.v.c < b.v.c
    \/ a.v.c = b.v.c /\ a.v.b < b.v.b
    \/ a.v.c = b.v.c /\ a.v.b = b.v.b /\ a.v.a <= b.v.a

\* the order of two "y-m-d" strings, character by character
DateStrLE(a, b) ==
    \/ a.v.a < b.v.a
    \/ a.v.a = b.v.a /\ a.v.b < b.v.b
    \/ a.v.a = b.v.a /\ a.v.b = b.v.b /\ a.v.c <= b.v.c

\* r put into the sorted rows after every row whose key is not greater
RECURSIVE InsertByDate(_, _)
InsertByDate(rows, r) ==
    IF rows = <<>> THEN <<r>>
    ELSE IF DateStrLE(Head(rows).data_evento, r.data_evento)
         THEN <<Head(rows)>> \o InsertByDate(Tail(rows), r)
    ELSE <<r>> \o rows

RECURSIVE SortRows(_)
SortRows(rows) ==
    IF rows = <<>> THEN <<>>
    ELSE InsertByDate(SortRows(SubSeq(rows, 1, Len(rows) - 1)), rows[Len(rows)])

\* df_thai.sort_values("data_evento", ignore_index=True)
sort_values(tbl) == [cols |-> tbl.cols, rows |-> SortRows(tbl.rows)]

format_int == columns_int \cup {"total_convidados_previsto", "total_convidados_presentes"}
format_float == columns_float \cup {"valor_total_previsto", "valor_total_realizado"}
format_date == {"data_contato", "data_evento"}

FormatRowFails(r) ==
    \/ \E c \in format_int : r[c].t # "txt" \/ ~IntOf(r[c].v).ok
    \/ \E c \in format_float : r[c].t # "txt" \/ ~FloatOf(r[c].v).ok

FormatRow(r) ==
    [c \in AllCols |->
        IF c \in format_int THEN Num(IntOf(r[c].v).v)
        ELSE IF c \in format_float THEN Num(FloatOf(r[c].v).v)
        ELSE IF c \in format_date THEN CoerceDate(r[c])
        ELSE r[c]]

\* format_cols with its default column lists
format_cols(tbl) ==
    IF ~((format_int \cup format_float \cup format_date) \subseteq tbl.cols)
    THEN Raised("KeyError")
    ELSE IF \E i \in 1..Len(tbl.rows) : FormatRowFails(tbl.rows[i])
         THEN Raised("ValueError")
    ELSE Done([cols |-> tbl.cols, rows |-> SeqMap(FormatRow, tbl.rows)])

-----------------------------------------------------------------------------
(* The sheets the pass is run on *)

\* the most rows of the current sheet
MaxCur == 2
\* the most rows of the legacy sheet
MaxLeg == 2

\* rows of the current sheet "Completa", as get_all_values returns them:
\* every cell a string
CurrentRows ==
    << With(BlankRow,
          [local |-> Txt(<<"T","h","a","i"," ","H","o","u","s","e">>),
           resp |-> Txt(<<"a","n","a">>),
           cardapio |-> Txt(<<"M","e","n","u"," ","K","o"," ","L","a","n","t","a">>),
           etapa |-> Txt(<<"R","e","a","l","i","z","a","d","o">>),
           convidados_previstos |-> Txt(<<"3">>),
           kids |-> Txt(<<"1">>),
           convidados_presentes |-> Txt(<<"2">>),
           kids_presentes |-> Txt(<<"1">>),
           preco |-> Txt(<<"2",",","5">>),
           preco_kids |-> Txt(<<"1">>),
           valor_extra |-> Txt(<<"1">>),
           data_contato |-> DStr("slash", 5, 1, 2024),
           data_evento |-> DStr("slash", 10, 2, 2024),
           manter_total_previsto |-> Txt(<<"F","A","L","S","E">>)]),
       With(BlankRow,
          [local |-> Txt(<<"R","i","v","e","r">>),
           resp |-> Txt(<<"b","r","u","n","o">>),
           cardapio |-> Txt(<<"P","H","U","K","E","T"," ">>),
           etapa |-> Txt(<<"R","e","a","l","i","z","a","d","o">>),
           convidados_previstos |-> Txt(<<"2">>),
           kids |-> Txt(<<>>),
           convidados_presentes |-> Txt(<<"3">>),
           kids_presentes |-> Txt(<<>>),
           preco |-> Txt(<<"2">>),
           preco_kids |-> Txt(<<>>),
           valor_extra |-> Txt(<<>>),
           data_contato |-> Txt(<<>>),
           data_evento |-> DStr("slash", 25, 12, 2023),
           manter_total_previsto |-> Txt(<<>>)]),
       With(BlankRow,
          [local |-> Txt(<<"R","i","v","e","r">>),
           resp |-> Txt(<<"a","n","a">>),
           cardapio |-> Txt(<<"P","h","u","k","e","t"," ","P","l","u","s">>),
           etapa |-> Txt(<<"R","e","a","l","i","z","a","d","o">>),
           convidados_previstos |-> Txt(<<"1">>),
           kids |-> Txt(<<"2">>),
           convidados_presentes |-> Txt(<<"2">>),
           kids_presentes |-> Txt(<<"1">>),
           preco |-> Txt(<<"3">>),
           preco_kids |-> Txt(<<"1",",","5">>),
           valor_extra |-> Txt(<<"2">>),
           data_contato |-> DStr("slash", 1, 3, 2024),
           data_evento |-> DStr("slash", 2, 3, 2024),
           manter_total_previsto |-> Txt(<<"T","R","U","E">>)]),
       With(BlankRow,
          [local |-> Txt(<<>>),
           resp |-> Txt(<<>>),
           cardapio |-> Txt(<<>>),
           etapa |-> Txt(<<" ","r","e","a","l","i","z","a","d","o">>),
           convidados_previstos |-> Txt(<<"2">>),
           kids |-> Txt(<<"1">>),
           convidados_presentes |-> Txt(<<"2">>),
           kids_presentes |-> Txt(<<"1">>),
           preco |-> Txt(<<"1">>),
           preco_kids |-> Txt(<<"1">>),
           valor_extra |-> Txt(<<"1">>),
           data_contato |-> Txt(<<>>),
           data_evento |-> Txt(<<>>),
           manter_total_previsto |-> Txt(<<"f","a","l","s","e">>)]),
       With(BlankRow,
          [local |-> Txt(<<"T","h","a","i"," ","H","o","u","s","e">>),
           resp |-> Txt(<<"c","a","i","o">>),
           cardapio |-> Txt(<<"D","i","a"," ","d","o","s"," "," ","n","a","m","o","r","a","d","o","s">>),
           etapa |-> Txt(<<"F","e","c","h","a","d","o">>),
           convidados_previstos |-> Txt(<<"3">>),
           kids |-> Txt(<<"0">>),
           convidados_presentes |-> Txt(<<"1">>),
           kids_presentes |-> Txt(<<"0">>),
           preco |-> Txt(<<"2">>),
           preco_kids |-> Txt(<<"1">>),
           valor_extra |-> Txt(<<"0">>),
           data_contato |-> DStr("slash", 9, 1, 2024),
           data_evento |-> Txt(<<"a"," ","d","e","f","i","n","i","r">>),
           manter_total_previsto |-> Txt(<<"F","A","L","S","E">>)]),
       With(BlankRow,
          [local |-> Txt(<<"T","h","a","i"," ","H","o","u","s","e">>),
           resp |-> Txt(<<"d","o","r","a">>),
           cardapio |-> Txt(<<"k","r","a","b">>),
           etapa |-> Txt(<<"R","e","a","l","i","z","a","d","o">>),
           convidados_previstos |-> Txt(<<"2">>),
           kids |-> Txt(<<"1">>),
           convidados_presentes |-> Txt(<<"1">>),
           kids_presentes |-> Txt(<<"1">>),
           preco |-> Txt(<<"a","b","c">>),
           preco_kids |-> Txt(<<"1">>),
           valor_extra |-> Txt(<<"1">>),
           data_contato |-> DStr("slash", 3, 4, 2024),
           data_evento |-> DStr("slash", 4, 4, 2024),
           manter_total_previsto |-> Txt(<<"n","a","o">>)]) >>

\* rows of the legacy sheet "dados_anos_anteriores"
LegacyRows ==
    << With(BlankRow,
          [resp_evento |-> Txt(<<"b","i","a">>),
           etapa |-> Txt(<<"R","e","a","l","i","z","a","d","o">>),
           cardapio |-> Txt(<<"K","o"," ","S","a","k">>),
           qtde_convidados |-> Txt(<<"3">>),
           kids |-> Txt(<<"1">>),
           convidados_presentes |-> Txt(<<"2">>),
           kids_presentes |-> Txt(<<"0">>),
           preco |-> Txt(<<"2">>),
           preco_kids |-> Txt(<<"1">>),
           valor_extra |-> Txt(<<"0">>),
           data_contato |-> DStr("iso", 2021, 3, 5),
           data_evento |-> DStr("iso", 2021, 4, 20),
           obs_interna |-> Txt(<<"x">>),
           valor_total_previsto |-> Txt(<<"9","9">>),
           manter_total_previsto |-> Txt(<<"F","A","L","S","E">>)]),
       With(BlankRow,
          [resp_evento |-> Txt(<<"e","d","u">>),
           etapa |-> Txt(<<"F","e","c","h","a","d","o">>),
           cardapio |-> Txt(<<"K","o","h"," ","S","a","m","m","e","t">>),
           qtde_convidados |-> Txt(<<"2">>),
           kids |-> Txt(<<"0">>),
           convidados_presentes |-> Txt(<<"0">>),
           kids_presentes |-> Txt(<<"0">>),
           preco |-> Txt(<<"1",".","5">>),
           preco_kids |-> Txt(<<"1">>),
           valor_extra |-> Txt(<<"1">>),
           data_contato |-> Txt(<<>>),
           data_evento |-> DStr("iso", 2020, 7, 14),
           obs_interna |-> Txt(<<>>),
           valor_total_previsto |-> Txt(<<"3">>),
           manter_total_previsto |-> Txt(<<"T","R","U","E">>)]),
       With(BlankRow,
          [resp_evento |-> Txt(<<"f","a","b","i">>),
           etapa |-> Txt(<<"R","e","a","l","i","z","a","d","o">>),
           cardapio |-> Txt(<<"S","u","s","h","i","-","0","1">>),
           qtde_convidados |-> Txt(<<"2">>),
           kids |-> Txt(<<"1">>),
           convidados_presentes |-> Txt(<<"2">>),
           kids_presentes |-> Txt(<<"1">>),
           preco |-> Txt(<<"2">>),
           preco_kids |-> Txt(<<"1">>),
           valor_extra |-> Txt(<<"1">>),
           data_contato |-> DStr("iso", 2019, 1, 2),
           data_evento |-> Txt(<<"s","e","m"," ","d","a","t","a">>),
           obs_interna |-> Txt(<<>>),
           valor_total_previsto |-> Txt(<<"5">>),
           manter_total_previsto |-> Txt(<<"F","A","L","S","E">>)]),
       With(BlankRow,
          [resp_evento |-> Txt(<<"g","i","l">>),
           etapa |-> Txt(<<"R","e","a","l","i","z","a","d","o">>),
           cardapio |-> Txt(<<"M","e","n","u"," ","P","h","u","k","e","t">>),
           qtde_convidados |-> Txt(<<"4">>),
           kids |-> Txt(<<>>),
           convidados_presentes |-> Txt(<<"3">>),
           kids_presentes |-> Txt(<<"1">>),
           preco |-> Txt(<<"2">>),
           preco_kids |-> Txt(<<"1">>),
           valor_extra |-> Txt(<<"1">>),
           data_contato |-> DStr("iso", 2019, 5, 6),
           data_evento |-> DStr("iso", 2019, 6, 7),
           obs_interna |-> Txt(<<>>),
           valor_total_previsto |-> Txt(<<"8">>),
           manter_total_previsto |-> Txt(<<"F","A","L","S","E">>)]) >>

\* the header of the legacy sheet; the retain-forecast column is optional
LegacyHeader ==
    {"resp_evento", "data_contato", "etapa", "data_evento", "cardapio",
     "qtde_convidados", "preco", "kids", "preco_kids", "valor_extra",
     "convidados_presentes", "kids_presentes", "valor_total_previsto",
     "obs_interna"}

\* the sequences over 1..n of length lo..hi
SeqsOf(n, lo, hi) == UNION { [1..k -> 1..n] : k \in lo..hi }

\* a row with the cells of the columns outside cols missing
Restrict(r, cols) == [c \in AllCols |-> IF c \in cols THEN r[c] ELSE NaN]

\* the current sheet: one to MaxCur rows with the whole header, or one row
\* with the column valor_extra missing
CurrentSheets ==
    { [cols |-> columns_manter, rows |-> [i \in DOMAIN pick |-> CurrentRows[pick[i]]]] :
        pick \in SeqsOf(Len(CurrentRows), 1, MaxCur) }
    \cup
    { [cols |-> columns_manter \ {"valor_extra"},
       rows |-> <<Restrict(CurrentRows[k], columns_manter \ {"valor_extra"})>>] :
        k \in 1..Len(CurrentRows) }

\* the legacy sheet: zero to MaxLeg rows, with or without the flag column
LegacySheets ==
    { [cols |-> h, rows |-> [i \in DOMAIN pick |-> Restrict(LegacyRows[pick[i]], h)]] :
        pick \in SeqsOf(Len(LegacyRows), 0, MaxLeg),
        h \in {LegacyHeader, LegacyHeader \cup {"manter_total_previsto"}} }

\* what get_google_sheet_data does for the legacy sheet: it returns the sheet,
\* returns an empty DataFrame (no secrets file), or raises
FetchFailures == {"SpreadsheetNotFound", "WorksheetNotFound", "APIError"}

LegacySources ==
    { [outcome |-> "ok", table |-> t] : t \in LegacySheets }
    \cup { [outcome |-> o, table |-> EmptyTable] : o \in {"no_secrets"} \cup FetchFailures }

-----------------------------------------------------------------------------
(* SpecPass: the transformation pass of run_full_etl, lines 162-321.  pc   *)
(* names the block about to run; "returned" and "error" end the run.       *)

InitPass ==
    /\ pc = "typing"
    /\ sheet \in CurrentSheets
    /\ current_src = [outcome |-> "ok", table |-> sheet]
    /\ legacy_src \in LegacySources
    /\ df = sheet
    /\ df_anos_ant = EmptyTable
    /\ df_thai = sheet
    /\ calc_in = EmptyTable
    /\ err = "none"
    /\ ViewIdle

\* lines 162-186: df = df[columns_manter].copy(), flag and numbers typed
Typing ==
    /\ pc = "typing"
    /\ LET res == TypeCurrent(df)
       IN  IF res.ok
           THEN /\ df' = res.tbl
                /\ pc' = "fetch_legacy"
                /\ err' = err
           ELSE /\ df' = df
                /\ pc' = "error"
                /\ err' = res.err
    /\ UNCHANGED <<current_src, sheet, legacy_src, df_anos_ant, df_thai, calc_in>>
    /\ UNCHANGED view_vars

\* lines 189-195: get_google_sheet_data for the legacy sheet.  The handler of
\* line 193 catches FileNotFoundError only, which get_google_sheet_data
\* (lines 29-33) catches itself; whatever else the fetch raises leaves
\* run_full_etl
FetchLegacy ==
    /\ pc = "fetch_legacy"
    /\ IF legacy_src.outcome \in {"ok", "no_secrets"}
       THEN /\ df_anos_ant' = legacy_src.table
            /\ pc' = "reconcile"
            /\ err' = err
       ELSE /\ df_anos_ant' = df_anos_ant
            /\ pc' = "error"
            /\ err' = legacy_src.outcome
    /\ UNCHANGED <<current_src, sheet, legacy_src, df, df_thai, calc_in>>
    /\ UNCHANGED view_vars

\* lines 197-224: the legacy table brought to the schema, then the two
\* tables concatenated
Reconcile ==
    /\ pc = "reconcile"
    /\ LET res == PrepareLegacy(df_anos_ant)
       IN  IF res.ok
           THEN /\ df_anos_ant' = res.tbl
                /\ df_thai' = Concat(res.tbl, df)
                /\ pc' = "fill"
                /\ err' = err
           ELSE /\ UNCHANGED <<df_anos_ant, df_thai>>
                /\ pc' = "error"
                /\ err' = res.err
    /\ UNCHANGED <<current_src, sheet, legacy_src, df, calc_in>>
    /\ UNCHANGED view_vars

\* lines 226-260
Fill ==
    /\ pc = "fill"
    /\ LET res == FillTypes(df_thai)
       IN  IF res.ok
           THEN /\ df_thai' = res.tbl
                /\ pc' = "calc"
                /\ err' = err
           ELSE /\ df_thai' = df_thai
                /\ pc' = "error"
                /\ err' = res.err
    /\ UNCHANGED <<current_src, sheet, legacy_src, df, df_anos_ant, calc_in>>
    /\ UNCHANGED view_vars

\* line 263
Calculate ==
    /\ pc = "calc"
    /\ calc_in' = df_thai
    /\ df_thai' = calculos_automaticos(df_thai)
    /\ pc' = "strings"
    /\ UNCHANGED <<current_src, sheet, legacy_src, df, df_anos_ant, err>>
    /\ UNCHANGED view_vars

\* lines 265-278
Strings ==
    /\ pc = "strings"
    /\ df_thai' = CleanStrings(df_thai)
    /\ pc' = "menu"
    /\ UNCHANGED <<current_src, sheet, legacy_src, df, df_anos_ant, calc_in, err>>
    /\ UNCHANGED view_vars

\* lines 280-309
Menu ==
    /\ pc = "menu"
    /\ df_thai' = Canonicalize(df_thai)
    /\ pc' = "sort"
    /\ UNCHANGED <<current_src, sheet, legacy_src, df, df_anos_ant, calc_in, err>>
    /\ UNCHANGED view_vars

\* lines 311-321: sort by data_evento, return format_cols(df_thai)
SortAndReturn ==
    /\ pc = "sort"
    /\ LET res == format_cols(sort_values(df_thai))
       IN  IF res.ok
           THEN /\ df_thai' = res.tbl
                /\ pc' = "returned"
                /\ err' = err
           ELSE /\ df_thai' = sort_values(df_thai)
                /\ pc' = "error"
                /\ err' = res.err
    /\ UNCHANGED <<current_src, sheet, legacy_src, df, df_anos_ant, calc_in>>
    /\ UNCHANGED view_vars

NextPass ==
    \/ Typing
    \/ FetchLegacy
    \/ Reconcile
    \/ Fill
    \/ Calculate
    \/ Strings
    \/ Menu
    \/ SortAndReturn

SpecPass == InitPass /\ [][NextPass]_vars

-----------------------------------------------------------------------------
(* Spec: run_full_etl from its entry, as written.  Line 160 reads the      *)
(* local df, which is first assigned at line 174: for every non-empty      *)
(* current table the call raises UnboundLocalError there.                  *)

\* what get_google_sheet_data does for the current sheet
CurrentSources ==
    { [outcome |-> "ok", table |-> t] :
        t \in CurrentSheets \cup {[cols |-> columns_manter, rows |-> <<>>]} }
    \cup { [outcome |-> o, table |-> EmptyTable] : o \in {"no_secrets"} \cup FetchFailures }

Init ==
    /\ pc = "extract"
    /\ current_src \in CurrentSources
    /\ legacy_src \in { src \in LegacySources : Len(src.table.rows) <= 1 }
    /\ sheet = EmptyTable
    /\ df = EmptyTable
    /\ df_anos_ant = EmptyTable
    /\ df_thai = EmptyTable
    /\ calc_in = EmptyTable
    /\ err = "none"
    /\ ViewIdle

\* lines 149-157: df_thai = get_google_sheet_data(...); an empty table is
\* returned at once
Extract ==
    /\ pc = "extract"
    /\ IF current_src.outcome \in FetchFailures
       THEN /\ pc' = "error"
            /\ err' = current_src.outcome
            /\ UNCHANGED <<sheet, df_thai>>
       ELSE /\ sheet' = current_src.table
            /\ df_thai' = current_src.table
            /\ pc' = IF IsEmpty(current_src.table) THEN "returned" ELSE "normalize"
            /\ err' = err
    /\ UNCHANGED <<current_src, legacy_src, df, df_anos_ant, calc_in>>
    /\ UNCHANGED view_vars

\* line 160: colunas_lower_replace(df), with df not yet bound
Normalize ==
    /\ pc = "normalize"
    /\ pc' = "error"
    /\ err' = "UnboundLocalError"
    /\ UNCHANGED <<current_src, sheet, legacy_src, df, df_anos_ant, df_thai, calc_in>>
    /\ UNCHANGED view_vars

Next == Extract \/ Normalize

Spec == Init /\ [][Next]_vars

-----------------------------------------------------------------------------
(* The analysis layer: etl_utils.py (DataProcess, FilterSelection, dre) and *)
(* charts.py (create_table, PainelEventos).  A table is [cols, rows, cat]:  *)
(* a row is a function on cols, cat tells whether the column Etapa has the  *)
(* category dtype and, if so, its categories in their order.                *)
(* Two more kinds of cell:                                                  *)
(*     [t |-> "mon",  v |-> m]  strftime("%b"): the name of month m in the *)
(*                              locale of the process                       *)
(*     [t |-> "wday", v |-> w]  strftime("%A"): the name of weekday w       *)
(*                              (0 = Sunday) in the locale of the process   *)
(* A function of the layer works on a store h, the sequence of the tables   *)
(* alive during the call; h[1] is the table of the caller.                  *)

\* the spelling of the column names, before and after process_data
Spelling ==
       ("local" :> <<"l","o","c","a","l">>)
    @@ ("resp" :> <<"r","e","s","p">>)
    @@ ("cardapio" :> <<"c","a","r","d","a","p","i","o">>)
    @@ ("etapa" :> <<"e","t","a","p","a">>)
    @@ ("kids" :> <<"k","i","d","s">>)
    @@ ("preco_kids" :> <<"p","r","e","c","o","_","k","i","d","s">>)
    @@ ("convidados_presentes" :> <<"c","o","n","v","i","d","a","d","o","s","_","p","r","e","s","e","n","t","e","s">>)
    @@ ("convidados_previstos" :> <<"c","o","n","v","i","d","a","d","o","s","_","p","r","e","v","i","s","t","o","s">>)
    @@ ("kids_presentes" :> <<"k","i","d","s","_","p","r","e","s","e","n","t","e","s">>)
    @@ ("valor_extra" :> <<"v","a","l","o","r","_","e","x","t","r","a">>)
    @@ ("preco" :> <<"p","r","e","c","o">>)
    @@ ("data_contato" :> <<"d","a","t","a","_","c","o","n","t","a","t","o">>)
    @@ ("data_evento" :> <<"d","a","t","a","_","e","v","e","n","t","o">>)
    @@ ("manter_total_previsto" :> <<"m","a","n","t","e","r","_","t","o","t","a","l","_","p","r","e","v","i","s","t","o">>)
    @@ ("total_convidados_previsto" :> <<"t","o","t","a","l","_","c","o","n","v","i","d","a","d","o","s","_","p","r","e","v","i","s","t","o">>)
    @@ ("valor_total_previsto" :> <<"v","a","l","o","r","_","t","o","t","a","l","_","p","r","e","v","i","s","t","o">>)
    @@ ("total_convidados_presentes" :> <<"t","o","t","a","l","_","c","o","n","v","i","d","a","d","o","s","_","p","r","e","s","e","n","t","e","s">>)
    @@ ("valor_total_realizado" :> <<"v","a","l","o","r","_","t","o","t","a","l","_","r","e","a","l","i","z","a","d","o">>)
    @@ ("cod_etapa" :> <<"c","o","d","_","e","t","a","p","a">>)
    @@ ("ano_evento" :> <<"a","n","o","_","e","v","e","n","t","o">>)
    @@ ("mes_evento" :> <<"m","e","s","_","e","v","e","n","t","o">>)
    @@ ("dia_semana" :> <<"d","i","a","_","s","e","m","a","n","a">>)
    @@ ("Local" :> <<"L","o","c","a","l">>)
    @@ ("Resp" :> <<"R","e","s","p">>)
    @@ ("Cardapio" :> <<"C","a","r","d","a","p","i","o">>)
    @@ ("Etapa" :> <<"E","t","a","p","a">>)
    @@ ("Kids" :> <<"K","i","d","s">>)
    @@ ("Preco kids" :> <<"P","r","e","c","o"," ","k","i","d","s">>)
    @@ ("Convidados presentes" :> <<"C","o","n","v","i","d","a","d","o","s"," ","p","r","e","s","e","n","t","e","s">>)
    @@ ("Convidados previstos" :> <<"C","o","n","v","i","d","a","d","o","s"," ","p","r","e","v","i","s","t","o","s">>)
    @@ ("Kids presentes" :> <<"K","i","d","s"," ","p","r","e","s","e","n","t","e","s">>)
    @@ ("Valor extra" :> <<"V","a","l","o","r"," ","e","x","t","r","a">>)
    @@ ("Preco" :> <<"P","r","e","c","o">>)
    @@ ("Data contato" :> <<"D","a","t","a"," ","c","o","n","t","a","t","o">>)
    @@ ("Data evento" :> <<"D","a","t","a"," ","e","v","e","n","t","o">>)
    @@ ("Manter total previsto" :> <<"M","a","n","t","e","r"," ","t","o","t","a","l"," ","p","r","e","v","i","s","t","o">>)
    @@ ("Total convidados previsto" :> <<"T","o","t","a","l"," ","c","o","n","v","i","d","a","d","o","s"," ","p","r","e","v","i","s","t","o">>)
    @@ ("Valor total previsto" :> <<"V","a","l","o","r"," ","t","o","t","a","l"," ","p","r","e","v","i","s","t","o">>)
    @@ ("Total convidados presentes" :> <<"T","o","t","a","l"," ","c","o","n","v","i","d","a","d","o","s"," ","p","r","e","s","e","n","t","e","s">>)
    @@ ("Valor total realizado" :> <<"V","a","l","o","r"," ","t","o","t","a","l"," ","r","e","a","l","i","z","a","d","o">>)
    @@ ("Cod etapa" :> <<"C","o","d"," ","e","t","a","p","a">>)
    @@ ("Ano evento" :> <<"A","n","o"," ","e","v","e","n","t","o">>)
    @@ ("Mes evento" :> <<"M","e","s"," ","e","v","e","n","t","o">>)
    @@ ("Dia semana" :> <<"D","i","a"," ","s","e","m","a","n","a">>)
    @@ ("horario_inicio" :> <<"h","o","r","a'","r","i","o","_","i","n","i'","c","i","o">>)
    @@ ("empresa" :> <<"e","m","p","r","e","s","a">>)
    @@ ("contato" :> <<"c","o","n","t","a","t","o">>)
    @@ ("Horario inicio" :> <<"H","o","r","a'","r","i","o"," ","i","n","i'","c","i","o">>)
    @@ ("Empresa" :> <<"E","m","p","r","e","s","a">>)
    @@ ("Contato" :> <<"C","o","n","t","a","t","o">>)

\* Index.str.replace('_', ' ')
UnderscoreToBlank(cs) == [i \in 1..Len(cs) |-> IF cs[i] = "_" THEN " " ELSE cs[i]]

\* a variant that capitalizes only names of more than one word
DisplayNames_kept ==
    [c \in DOMAIN Spelling |->
        IF \A k \in 1..Len(Spelling[c]) : Spelling[c][k] # "_" THEN c
        ELSE CHOOSE d \in DOMAIN Spelling :
                Spelling[d] = StrCapitalize(UnderscoreToBlank(Spelling[c]))]

\* df_processed.columns.str.replace('_', ' ').str.capitalize(): the name
\* each column gets
DisplayNames ==
    [c \in DOMAIN Spelling |->
        CHOOSE d \in DOMAIN Spelling :
            Spelling[d] = StrCapitalize(UnderscoreToBlank(Spelling[c]))]

DisplayName(c) == DisplayNames[c]

\* the characters in the order of their code points
CodeOrder ==
    <<" ", "-", "0","1","2","3","4","5","6","7","8","9",
      "A","B","C","D","E","F","G","H","I","J","K","L","M",
      "N","O","P","Q","R","S","T","U","V","W","X","Y","Z", "_",
      "a","b","c","d","e","f","g","h","i","j","k","l","m",
      "n","o","p","q","r","s","t","u","v","w","x","y","z", "A~", "a~", "c,">>

CodePoint(ch) == CHOOSE i \in 1..Len(CodeOrder) : CodeOrder[i] = ch

\* a < b for two strings, as Python compares them
RECURSIVE StrLess(_, _)
StrLess(a, b) ==
    IF b = <<>> THEN FALSE
    ELSE IF a = <<>> THEN TRUE
    ELSE IF Head(a) = Head(b) THEN StrLess(Tail(a), Tail(b))
    ELSE CodePoint(Head(a)) < CodePoint(Head(b))

\* the strings of S in ascending order
RECURSIVE SortedStrings(_)
SortedStrings(S) ==
    IF S = {} THEN <<>>
    ELSE LET least == CHOOSE x \in S : \A y \in S \ {x} : StrLess(x, y)
         IN  <<least>> \o SortedStrings(S \ {least})

\* Series.astype('category'): the distinct non-null values, sorted
Categories(rows, col) ==
    SortedStrings({ rows[i][col].v : i \in { k \in 1..Len(rows) : rows[k][col].t = "txt" } })

\* Series.cat.codes on one cell: the position of the value among the
\* categories, from 0; -1 for a missing value
CatCode(levels, c) ==
    IF c.t = "txt" /\ (\E k \in 1..Len(levels) : levels[k] = c.v)
    THEN Num((CHOOSE k \in 1..Len(levels) : levels[k] = c.v) - 1)
    ELSE Num(-1)

NoCategory == [is |-> FALSE, levels |-> <<>>]

\* a variant of DataFrame.copy() that hands back the table it was given
Copy_alias(h, i) == [h |-> h, id |-> i]

\* DataFrame.copy(): a new table with the same content
Copy(h, i) == [h |-> Append(h, h[i]), id |-> Len(h) + 1]

\* df[col] = values, in place: F gives the cell of each row
SetColumn(t, col, F(_)) ==
    [t EXCEPT !.cols = @ \cup {col},
              !.rows = [i \in 1..Len(t.rows) |->
                          [c \in t.cols \cup {col} |->
                              IF c = col THEN F(t.rows[i]) ELSE t.rows[i][c]]]]

\* what a function of the layer gives back: the store and the tables it
\* returns, or the exception it raises
Returned(h, out, printed) ==
    [ok |-> TRUE, h |-> h, out |-> out, log |-> printed, err |-> "none"]
Raising(h, e) == [ok |-> FALSE, h |-> h, out |-> <<>>, log |-> <<>>, err |-> e]

cat_col == "etapa"
data_col == "data_evento"

\* pd.to_datetime(x) on one cell of the date column
ToDatetime(c) ==
    IF IsNullDate(c) THEN Parsed(NaN)
    ELSE LET d == DateOfMonthFirst(c)
         IN  IF d.ok THEN Parsed([t |-> "date", v |-> d.v]) ELSE Failed

\* datetime.weekday of a date, 0 = Sunday
DayOfWeek(d) ==
    LET shift == <<0, 3, 2, 5, 0, 3, 5, 1, 4, 6, 2, 4>>
        y == IF d.m < 3 THEN d.y - 1 ELSE d.y
    IN  (y + (y \div 4) - (y \div 100) + (y \div 400) + shift[d.m] + d.d) % 7

\* lines 96-98 on the table t: the category column and its codes
Categorized(t, levels) ==
    LET coded(r) == CatCode(levels, r[cat_col])
    IN  SetColumn([t EXCEPT !.cat = [is |-> TRUE, levels |-> levels]],
                  "cod_etapa", coded)

\* lines 94-98 on the copy c.h[c.id]
CategoryOf(c, t) ==
    IF data_col \notin t.cols \/ cat_col \notin t.cols
    THEN Raising(c.h, "KeyError")
    ELSE IF \E k \in 1..Len(t.rows) : ~ToDatetime(t.rows[k][data_col]).ok
    THEN Raising(c.h, "ValueError")
    ELSE LET dated(r) == ToDatetime(r[data_col]).v
         IN  Returned([c.h EXCEPT ![c.id] =
                          Categorized(SetColumn(t, data_col, dated),
                                      Categories(t.rows, cat_col))],
                      <<c.id>>, <<>>)

\* the table h[i] of a store, with the store
Held(c) == c.h[c.id]

\* DataProcess._create_category on the table h[i]: the copy with the date
\* column typed, the category column and its codes
create_category(h, i) == CategoryOf(Copy(h, i), Held(Copy(h, i)))

\* lines 116-120 on the copy c.h[c.id]
DateOf(c, t) ==
    LET year(r) == IF r[data_col].t = "date" THEN Num(r[data_col].v.y) ELSE NaN
        month(r) == IF r[data_col].t = "date"
                    THEN [t |-> "mon", v |-> r[data_col].v.m] ELSE NaN
        weekday(r) == IF r[data_col].t = "date"
                      THEN [t |-> "wday", v |-> DayOfWeek(r[data_col].v)] ELSE NaN
    IN  Returned([c.h EXCEPT ![c.id] =
                     SetColumn(SetColumn(SetColumn(t, "ano_evento", year),
                                         "mes_evento", month),
                               "dia_semana", weekday)],
                 <<c.id>>, <<>>)

\* DataProcess._process_date on the table h[i]: the copy with year, month
\* name and weekday name of the date column
process_date(h, i) == DateOf(Copy(h, i), Held(Copy(h, i)))

\* the columns of a table under their new names, and the column each new
\* name comes from (of two columns with one new name, one)
ShownCols(cols) == { DisplayName(c) : c \in cols }
ShownFrom(cols) ==
    [d \in ShownCols(cols) |-> CHOOSE c \in cols : DisplayName(c) = d]

\* line 147 on one table: every column gets its display name
RenameWith(t, from) ==
    [t EXCEPT !.cols = DOMAIN from,
              !.rows = [i \in 1..Len(t.rows) |->
                          [d \in DOMAIN from |-> t.rows[i][from[d]]]]]

RenameColumns(t) == RenameWith(t, ShownFrom(t.cols))

\* lines 145-149 on what _create_category returned
Dated(a) == IF a.ok THEN process_date(a.h, a.out[1]) ELSE a
Renamed(b) ==
    IF b.ok THEN Returned([b.h EXCEPT ![b.out[1]] = RenameColumns(@)], b.out, <<>>)
    ELSE b

\* DataProcess.process_data on the table h[i]
process_data(h, i) == Renamed(Dated(create_category(h, i)))

\* FilterSelection: a selection is a list or None, the year a number or None
None == [given |-> FALSE, items |-> <<>>, v |-> 0]
List(items) == [given |-> TRUE, items |-> items, v |-> 0]
Year(n) == [given |-> TRUE, items |-> <<>>, v |-> n]

\* the truth value Python gives a selection: a non-empty list
Truthy(s) == s.given /\ s.items # <<>>

\* Series.isin(values) on one cell
IsIn(c, items) == c.t = "txt" /\ \E k \in 1..Len(items) : items[k] = c.v

\* df[mask]: a new table with the rows that Keep holds of, in their order
SelectRows(t, Keep(_)) == [t EXCEPT !.rows = SelectSeq(t.rows, Keep)]

\* one criterion of run_filter, lines 208-229: applied when its toggle is on
\* and its selection counts, announced when the toggle is on and it does not
Criterion(s, toggle, counts, col, Keep(_), name) ==
    IF ~s.ok THEN s
    ELSE IF toggle /\ counts
         THEN IF col \notin s.h[s.id].cols
              THEN [s EXCEPT !.ok = FALSE, !.err = "KeyError"]
              ELSE [s EXCEPT !.h = Append(@, SelectRows(s.h[s.id], Keep)),
                             !.id = Len(s.h) + 1]
    ELSE IF toggle THEN [s EXCEPT !.log = Append(@, name)]
    ELSE s

\* df_filtered['Ano evento'] == self.year_select on one row
KeepYear(r, year_select) == CellEq(r["Ano evento"], Num(year_select.v))

\* a variant of the venue criterion that drops the selected venues
KeepPlace_not(r, place_select) == ~IsIn(r["Local"], place_select.items)

\* df_filtered['Local'].isin(self.place_select) on one row
KeepPlace(r, place_select) == IsIn(r["Local"], place_select.items)

\* df_filtered['Etapa'].isin(self.stage_select) on one row
KeepStage(r, stage_select) == IsIn(r["Etapa"], stage_select.items)

\* a variant of the stage test that takes any given selection as active
StageCounts_given(stage_select) == stage_select.given

\* `self.stage_select` as the condition of line 217
StageCounts(stage_select) == Truthy(stage_select)

\* the three criteria of run_filter in their order, from the copy s
PlaceCriterion(s, self, toggle) ==
    LET place(r) == KeepPlace(r, self.place_select)
    IN  Criterion(s, toggle, Truthy(self.place_select), "Local", place, "filter_place")

\* a variant of the stage criterion that keeps one row, the first it holds of
StageCriterion_first(s, self, toggle) ==
    LET stage(r) == KeepStage(r, self.stage_select)
             /\ \A k \in 1..Len(s.h[s.id].rows) :
                    KeepStage(s.h[s.id].rows[k], self.stage_select)
                        => \E j \in 1..k : s.h[s.id].rows[j] = r
    IN  Criterion(s, toggle, StageCounts(self.stage_select), "Etapa", stage, "filter_stage")

StageCriterion(s, self, toggle) ==
    LET stage(r) == KeepStage(r, self.stage_select)
    IN  Criterion(s, toggle, StageCounts(self.stage_select), "Etapa", stage, "filter_stage")

YearCriterion(s, self, toggle) ==
    LET year(r) == KeepYear(r, self.year_select)
    IN  Criterion(s, toggle, self.year_select.given, "Ano evento", year, "filter_year")

\* line 206: df_filtered = df.copy()
Filtering(c) == [ok |-> TRUE, h |-> c.h, id |-> c.id, log |-> <<>>, err |-> "none"]

\* line 231: return df_filtered
Filtered(s) ==
    [ok |-> s.ok, h |-> s.h, out |-> IF s.ok THEN <<s.id>> ELSE <<>>,
     log |-> s.log, err |-> s.err]

\* FilterSelection.run_filter on the table h[i]; self holds the selections
run_filter(h, i, self, filter_place, filter_stage, filter_year) ==
    Filtered(YearCriterion(StageCriterion(PlaceCriterion(Filtering(Copy(h, i)),
                                                         self, filter_place),
                                          self, filter_stage),
                           self, filter_year))

\* Series.sum() of a column over rows: a missing value adds nothing
RECURSIVE SumOf(_, _)
SumOf(rows, col) ==
    IF rows = <<>> THEN 0
    ELSE (IF Head(rows)[col].t = "num" THEN Head(rows)[col].v ELSE 0)
            + SumOf(Tail(rows), col)

\* the key a cell gives its row in a groupby: its text, or missing
KeyOf(c) == IF c.t = "txt" THEN c ELSE NaN

\* the keys of one grouping column in the order groupby sorts them: every
\* category of a categorical column unless only the observed ones are asked
\* for, the values of the rows otherwise; the missing key last, when kept
KeyValues(t, col, observed, dropna) ==
    LET named == IF t.cat.is /\ col = "Etapa" /\ ~observed THEN t.cat.levels
                 ELSE Categories(t.rows, col)
        missing == \E k \in 1..Len(t.rows) : t.rows[k][col].t # "txt"
    IN  SeqMap(Txt, named) \o (IF missing /\ ~dropna THEN <<NaN>> ELSE <<>>)

\* the pairs of two key lists, the first key varying slowest
Pairs(as, bs) ==
    [k \in 1..(Len(as) * Len(bs)) |->
        <<as[((k - 1) \div Len(bs)) + 1], bs[((k - 1) % Len(bs)) + 1]>>]

\* the rows of one group
GroupRows(t, k1, k2, key) ==
    LET member(r) == KeyOf(r[k1]) = key[1] /\ KeyOf(r[k2]) = key[2]
    IN  SelectSeq(t.rows, member)

\* DataFrame.groupby([k1, k2], observed, dropna): the keys of the groups in
\* their order.  With a categorical key and observed=False pandas gives every
\* combination of the keys a group, with rows or without
groupby(t, k1, k2, observed, dropna) ==
    LET every == t.cat.is /\ ~observed /\ "Etapa" \in {k1, k2}
        kept(key) == every \/ GroupRows(t, k1, k2, key) # <<>>
    IN  SelectSeq(Pairs(KeyValues(t, k1, observed, dropna),
                        KeyValues(t, k2, observed, dropna)), kept)

\* groupby(...)[metrics].sum().reset_index(): a row for each group
Summed(t, k1, k2, metrics, groups) ==
    [cols |-> {k1, k2} \cup metrics,
     rows |-> [g \in 1..Len(groups) |->
                 [c \in {k1, k2} \cup metrics |->
                     IF c = k1 THEN groups[g][1]
                     ELSE IF c = k2 THEN groups[g][2]
                     ELSE Num(SumOf(GroupRows(t, k1, k2, groups[g]), c))]],
     cat |-> t.cat]

\* groupby(...).size().reset_index(name=name): a row for each group
Sized(t, k1, k2, name, groups) ==
    [cols |-> {k1, k2, name},
     rows |-> [g \in 1..Len(groups) |->
                 [c \in {k1, k2, name} |->
                     IF c = k1 THEN groups[g][1]
                     ELSE IF c = k2 THEN groups[g][2]
                     ELSE Num(Len(GroupRows(t, k1, k2, groups[g])))]],
     cat |-> t.cat]

\* DataFrame.melt and the replace of the variable column that follows it:
\* for each value column in turn a row for each row of t, with the id
\* columns, the new name of the value column and its value
Melt(t, id_vars, value_vars, var_name, value_name, names) ==
    [cols |-> id_vars \cup {var_name, value_name},
     rows |-> [k \in 1..(Len(value_vars) * Len(t.rows)) |->
                 LET v == value_vars[((k - 1) \div Len(t.rows)) + 1]
                     r == t.rows[((k - 1) % Len(t.rows)) + 1]
                 IN  [c \in id_vars \cup {var_name, value_name} |->
                         IF c = var_name THEN names[v]
                         ELSE IF c = value_name THEN r[v]
                         ELSE r[c]]],
     cat |-> t.cat]

Previsto == <<"P","r","e","v","i","s","t","o">>
Presentes == <<"P","r","e","s","e","n","t","e","s">>

\* the replacements of the variable column: values, guests
ValueNames ==
    ("Valor total previsto" :> Txt(Previsto))
        @@ ("Valor total realizado" :> Txt(Realizado))
GuestNames ==
    ("Total convidados previsto" :> Txt(Previsto))
        @@ ("Total convidados presentes" :> Txt(Presentes))

\* the columns the period is summed over
Metrics ==
    {"Valor total realizado", "Valor total previsto",
     "Total convidados previsto", "Total convidados presentes"}

\* the columns dre and _gerar_dataframes_analiticos read
ReportCols == {"Data evento", "Ano evento", "Local", "Etapa"} \cup Metrics

\* date.today() - relativedelta(months=n), its year and month
MonthsBefore(today, n) ==
    IF today.m > n THEN [y |-> today.y, m |-> today.m - n]
    ELSE [y |-> today.y - 1, m |-> today.m + 12 - n]

\* the days a call of the layer is made on: date.today() then and later
Later == [y |-> 2027, m |-> 1, d |-> 5]
Moments == {Today, Later}

\* lines 260-263: a month before the day of the call
mes_anterior(today) == MonthsBefore(today, 1)

\* df["Data evento"].dt.month == mes_anterior.month on one row
InMonthBefore(r, today) ==
    r["Data evento"].t = "date" /\ r["Data evento"].v.m = mes_anterior(today).m

\* df[df["Data evento"].dt.month == mes_anterior.month]
InMonthNumber(t, today) ==
    LET within(r) == InMonthBefore(r, today)
    IN  SelectRows(t, within)

\* the four reports from the table of the period and its sums by group
Reports(c, data, period, grouped, counted, tipo, valor, convidados, acumulado) ==
    Returned(c.h \o
               << Melt(grouped, {"Local", "Etapa"},
                       <<"Valor total previsto", "Valor total realizado">>,
                       tipo, valor, ValueNames),
                  Melt(grouped, {"Local", "Etapa"},
                       <<"Total convidados previsto", "Total convidados presentes">>,
                       tipo, convidados, GuestNames),
                  counted,
                  Melt(data, {"Ano evento", "Local"},
                       <<"Valor total previsto", "Valor total realizado">>,
                       tipo, acumulado, ValueNames) >>,
             <<Len(c.h) + 1, Len(c.h) + 2, Len(c.h) + 3, Len(c.h) + 4>>, <<>>)

\* lines 268-327 of dre from the copy of the period's rows
DreOf(c, data, period, observed) ==
    Reports(c, data, period,
            Summed(period, "Local", "Etapa", Metrics,
                   groupby(period, "Local", "Etapa", observed, FALSE)),
            Sized(period, "Etapa", "Local", "Contagem Etapa",
                  groupby(period, "Etapa", "Local", observed, FALSE)),
            "tipo", "valor total", "total convidados", "valor total acumulado")

\* the rows a boolean mask keeps, as a new table of the store, copied
Masked(h, kept) == Copy(Append(h, kept), Len(h) + 1)

\* dre on the table h[i], called on the day today.  observed is what groupby
\* takes when the call does not say: False in pandas before 3.0, True from
\* 3.0 on
dre(h, i, observed, today) ==
    IF ~(ReportCols \subseteq h[i].cols) THEN Raising(h, "KeyError")
    ELSE DreOf(Masked(h, InMonthNumber(h[i], today)), h[i],
               Held(Masked(h, InMonthNumber(h[i], today))), observed)

\* lines 296-299 on one row, n months back
InMonthOf(r, month) ==
    /\ r["Data evento"].t = "date"
    /\ r["Data evento"].v.m = month.m
    /\ r["Data evento"].v.y = month.y

\* lines 303-357 of _gerar_dataframes_analiticos from the copy of the
\* period's rows
AnaliticosOf(c, data, period, observed) ==
    Reports(c, data, period,
            Summed(period, "Local", "Etapa", Metrics,
                   groupby(period, "Local", "Etapa", observed, TRUE)),
            Sized(period, "Etapa", "Local", "Contagem Etapa",
                  groupby(period, "Etapa", "Local", observed, TRUE)),
            "Tipo", "Valor total", "Total convidados", "Valor total acumulado")

InPeriod(t, month) ==
    LET within(r) == InMonthOf(r, month)
    IN  SelectRows(t, within)

\* PainelEventos(n_meses_retroativos)._gerar_dataframes_analiticos on h[i],
\* called on the day today
gerar_dataframes_analiticos(h, i, n_meses_retroativos, observed, today) ==
    IF ~(ReportCols \subseteq h[i].cols) THEN Raising(h, "KeyError")
    ELSE AnaliticosOf(Masked(h, InPeriod(h[i], MonthsBefore(today, n_meses_retroativos))),
                      h[i],
                      Held(Masked(h, InPeriod(h[i], MonthsBefore(today, n_meses_retroativos)))),
                      observed)

\* the columns create_table shows
filter_cols(previsto) ==
    {"Resp", "Local", "Etapa", "Total convidados previsto", "Data evento",
     "Horario inicio", "Empresa", "Contato"}
        \cup (IF previsto THEN {"Valor total previsto"} ELSE {"Valor total realizado"})

\* df.loc[:, filter_cols].query('Etapa == @etapa_select'): a new table
Queried(t, cols, etapa_select) ==
    LET chosen(r) == CellEq(r["Etapa"], Txt(etapa_select))
    IN  [cols |-> cols,
         rows |-> SeqMap(LAMBDA r : [c \in cols |-> r[c]], SelectSeq(t.rows, chosen)),
         cat |-> t.cat]

\* process.sum(numeric_only=True) as the row "Total", lines 208-215: the sums
\* of the numeric columns, the other cells empty
total_row(t) ==
    [c \in t.cols |->
        IF \A k \in 1..Len(t.rows) : t.rows[k][c].t = "num"
        THEN Num(SumOf(t.rows, c)) ELSE Txt(<<>>)]

\* lines 199-215 on the copy `process`, in place: Etapa as plain text, the
\* date as the locale writes it (pt_BR: dd/mm/yyyy), the row of totals, and
\* every missing cell empty
Formatted(t) ==
    LET shown(r) == [c \in t.cols |->
                        IF c = "Data evento" THEN StrfDMY(r[c])
                        ELSE r[c]]
        filled(r) == [c \in t.cols |-> IF IsNaN(r[c]) THEN Txt(<<>>) ELSE r[c]]
        dated == [t EXCEPT !.rows = SeqMap(shown, t.rows), !.cat = NoCategory]
    IN  [dated EXCEPT !.rows = SeqMap(filled, Append(dated.rows, total_row(dated)))]

TableOf(c) == Returned([c.h EXCEPT ![c.id] = Formatted(@)], <<c.id>>, <<>>)

\* create_table on the table h[i]
create_table(h, i, etapa_select, previsto) ==
    IF ~(filter_cols(previsto) \subseteq h[i].cols) THEN Raising(h, "KeyError")
    ELSE TableOf(Masked(h, Queried(h[i], filter_cols(previsto), etapa_select)))

-----------------------------------------------------------------------------
(* SpecView: the calls of the analysis layer on one table *)

\* the most records of the table the layer is called on
MaxView == 2

ThaiHouseClean == <<"T","h","a","i"," ","h","o","u","s","e">>
River == <<"R","i","v","e","r">>
Negociacao == <<"N","e","g","o","c","i","a","c,","a~","o">>
Cancelado == <<"C","a","n","c","e","l","a","d","o">>

\* columns of columns_manter that the pass carries and create_table shows:
\* horário_início, empresa, contato
CarriedCols == {"horario_inicio", "empresa", "contato"}

\* the columns of the dataset run_full_etl returns
DatasetCols == columns_manter \cup DerivedCols \cup CarriedCols

\* a record of the dataset run_full_etl returns: the event of a venue, in a
\* stage, on a day, with its guests (forecast, present) and price per guest
Event(place, stage, y, m, d, guests, present, price) ==
    LET typed == With(BlankRow,
                      [local |-> Txt(place), resp |-> Txt(<<"A","n","a">>),
                       cardapio |-> Txt(<<"P","h","u","k","e","t">>),
                       etapa |-> Txt(stage),
                       kids |-> Num(0), preco_kids |-> Num(0),
                       convidados_presentes |-> Num(present),
                       convidados_previstos |-> Num(guests),
                       kids_presentes |-> Num(0), valor_extra |-> Num(0),
                       preco |-> Num(price),
                       data_contato |-> Date(y, m, d), data_evento |-> Date(y, m, d),
                       manter_total_previsto |-> Bool(FALSE)])
        done == With(CalcRow(typed),
                     [manter_total_previsto |-> Txt(<<"F","a","l","s","e">>)])
    IN  [c \in DatasetCols |->
            IF c = "horario_inicio" THEN Txt(<<"2","0",":","0","0">>)
            ELSE IF c \in CarriedCols THEN Txt(NaoInformado)
            ELSE done[c]]

\* the events the tables are made of: two venues, four stages; the month
\* before Today, that month a year earlier, another month, and a year the
\* application leaves out
Events ==
    << Event(ThaiHouseClean, Realizado, 2026, 10, 10, 2, 1, 3),
       Event(River, Fechado, 2026, 10, 20, 3, 0, 2),
       Event(ThaiHouseClean, Realizado, 2025, 10, 5, 1, 2, 5),
       Event(ThaiHouseClean, Negociacao, 2026, 9, 15, 2, 0, 4),
       Event(ThaiHouseClean, Cancelado, 2021, 10, 8, 2, 0, 2) >>

\* what run_full_etl returns when the current source gave nothing (lines
\* 155-157): the empty table as it came
NoData == [cols |-> {}, rows |-> <<>>, cat |-> NoCategory]

\* the datasets of a whole pass: one to MaxView events, in any order
FullDatasets ==
    { [cols |-> DatasetCols, rows |-> [i \in DOMAIN pick |-> Events[pick[i]]],
       cat |-> NoCategory] :
        pick \in SeqsOf(Len(Events), 1, MaxView) }

\* the datasets run_full_etl returns
Datasets == FullDatasets \cup {NoData}

\* app.py line 79: process_data(df_load).query('`Ano evento` > 2021')
Recent(t) ==
    LET recent(r) == r["Ano evento"].t = "num" /\ r["Ano evento"].v > 2021
    IN  SelectRows(t, recent)
Output(done) == done.h[done.out[1]]
AppTable(dataset) == Recent(Output(process_data(<<dataset>>, 1)))

\* the selections a FilterSelection is built with
PlaceSelections == {None, List(<<>>), List(<<ThaiHouseClean>>)}
StageSelections == {None, List(<<>>), List(<<Fechado, Realizado>>)}
YearSelections == {None, Year(2026)}

FilterSelections ==
    [place_select : PlaceSelections, stage_select : StageSelections,
     year_select : YearSelections]

\* the other variables while the analysis layer is called
EtlIdle ==
    /\ pc = "idle"
    /\ current_src = [outcome |-> "none", table |-> EmptyTable]
    /\ legacy_src = [outcome |-> "none", table |-> EmptyTable]
    /\ sheet = EmptyTable
    /\ df = EmptyTable
    /\ df_anos_ant = EmptyTable
    /\ df_thai = EmptyTable
    /\ calc_in = EmptyTable
    /\ err = "none"

\* the caller holds a dataset of run_full_etl or the table the application
\* makes of it
InitView ==
    /\ EtlIdle
    /\ view \in Datasets \cup { AppTable(d) : d \in FullDatasets }
    /\ filter_class \in FilterSelections
    /\ call = [op |-> "none", args |-> <<>>, err |-> "none"]
    /\ ret = <<>>
    /\ log = <<>>

\* a call of the layer on the caller's table: what it leaves in the table,
\* what it returns and prints
Called(op, args, res) ==
    /\ view' = res.h[1]
    /\ call' = [op |-> op, args |-> args, err |-> res.err]
    /\ ret' = [k \in 1..Len(res.out) |-> res.h[res.out[k]]]
    /\ log' = res.log
    /\ UNCHANGED <<etl_vars, filter_class>>

\* filter_class.run_filter(view, ...)
RunFilter ==
    \E filter_place, filter_stage, filter_year \in BOOLEAN :
        Called("run_filter", <<filter_place, filter_stage, filter_year>>,
               run_filter(<<view>>, 1, filter_class,
                          filter_place, filter_stage, filter_year))

\* DataProcess().process_data(view)
ProcessData ==
    Called("process_data", <<>>, process_data(<<view>>, 1))

\* dre(view) on some day; the pandas installed decides what groupby observes
Dre ==
    \E observed \in BOOLEAN, today \in Moments :
        Called("dre", <<observed, today>>, dre(<<view>>, 1, observed, today))

\* PainelEventos(n)._gerar_dataframes_analiticos(view), n as app.py gives it
Analiticos ==
    \E n_meses_retroativos \in {1, 2}, observed \in BOOLEAN, today \in Moments :
        Called("_gerar_dataframes_analiticos",
               <<n_meses_retroativos, observed, today>>,
               gerar_dataframes_analiticos(<<view>>, 1, n_meses_retroativos,
                                           observed, today))

\* create_table(view, etapa_select, previsto), as app.py lines 363-371 call it
CreateTable ==
    \E sel \in {<<Negociacao, TRUE>>, <<Fechado, TRUE>>, <<Realizado, FALSE>>} :
        Called("create_table", sel, create_table(<<view>>, 1, sel[1], sel[2]))

NextView ==
    \/ RunFilter
    \/ ProcessData
    \/ Dre
    \/ Analiticos
    \/ CreateTable

SpecView == InitView /\ [][NextView]_vars

-----------------------------------------------------------------------------
(* The calculator's contract, checked under SpecCalc *)

\* the calculator has returned
CalcDone == pc = "calc_done"

\* the rows the calculator was given and the rows it returned, by position
CalcRows == 1..Len(calc_in.rows)
RowIn(i) == calc_in.rows[i]
RowOut(i) == df_thai.rows[i]

\* the example of the specification: 40 guests at 100, 5 kids at 50, extra 200
ExampleRecord ==
    With(BlankRow,
         [etapa |-> Txt(Realizado),
          manter_total_previsto |-> Bool(FALSE),
          convidados_previstos |-> Num(50),
          kids |-> Num(10),
          convidados_presentes |-> Num(40),
          kids_presentes |-> Num(5),
          preco |-> Num(100),
          preco_kids |-> Num(50),
          valor_extra |-> Num(200)])

\* C1: a Realizado record whose retain-forecast flag is true gets
\* valor_total_realizado = valor_total_previsto + valor_extra, with
\* valor_total_previsto the value the same call recomputed.
C1_RealizedRetainForecast ==
    CalcDone =>
        \A i \in CalcRows :
            (CellEq(RowIn(i).etapa, Txt(Realizado))
             /\ CellEq(RowIn(i).manter_total_previsto, Bool(TRUE)))
            => /\ RowOut(i).valor_total_realizado =
                     Num(RowOut(i).valor_total_previsto.v + RowIn(i).valor_extra.v)
               /\ RowOut(i).valor_total_previsto =
                     Num(RowIn(i).preco.v * RowIn(i).convidados_previstos.v
                         + RowIn(i).preco_kids.v * RowIn(i).kids.v)

C1_Witness ==
    /\ CalcDone
    /\ \E i \in CalcRows :
          /\ CellEq(RowIn(i).etapa, Txt(Realizado))
          /\ CellEq(RowIn(i).manter_total_previsto, Bool(TRUE))
          /\ CellEq(RowIn(i).valor_total_previsto, Num(Stale))
          /\ RowIn(i).valor_extra.v > 0
          /\ RowOut(i).valor_total_previsto.v > 0
          /\ RowIn(i).convidados_presentes.v # RowIn(i).convidados_previstos.v
          /\ RowOut(i).valor_total_realizado.v
                = RowOut(i).valor_total_previsto.v + RowIn(i).valor_extra.v

\* C2: a Realizado record whose retain-forecast flag is false gets
\* valor_total_realizado = convidados_presentes*preco
\* + kids_presentes*preco_kids + valor_extra; the example record gives 4450.
C2_RealizedRecomputed ==
    /\ CalcRow(ExampleRecord).valor_total_realizado = Num(4450)
    /\ CalcDone =>
        \A i \in CalcRows :
            (CellEq(RowIn(i).etapa, Txt(Realizado))
             /\ CellEq(RowIn(i).manter_total_previsto, Bool(FALSE)))
            => RowOut(i).valor_total_realizado =
                  Num(RowIn(i).convidados_presentes.v * RowIn(i).preco.v
                      + RowIn(i).kids_presentes.v * RowIn(i).preco_kids.v
                      + RowIn(i).valor_extra.v)

C2_Witness ==
    /\ CalcDone
    /\ \E i \in CalcRows :
          /\ CellEq(RowIn(i).etapa, Txt(Realizado))
          /\ CellEq(RowIn(i).manter_total_previsto, Bool(FALSE))
          /\ RowIn(i).convidados_presentes.v > 0
          /\ RowIn(i).kids_presentes.v > 0
          /\ RowIn(i).preco.v > RowIn(i).preco_kids.v
          /\ RowIn(i).preco_kids.v > 0
          /\ RowIn(i).valor_extra.v > 0
          /\ RowIn(i).convidados_previstos.v # RowIn(i).convidados_presentes.v
          /\ RowOut(i).valor_total_realizado.v
                # RowOut(i).valor_total_previsto.v + RowIn(i).valor_extra.v

\* C3: a record whose stage is not "Realizado" gets
\* total_convidados_presentes = 0 and valor_total_realizado = 0, whatever its
\* present counts, prices, extra charges and flag.
C3_NotRealizedZero ==
    CalcDone =>
        \A i \in CalcRows :
            ~CellEq(RowIn(i).etapa, Txt(Realizado))
            => /\ RowOut(i).total_convidados_presentes = Num(0)
               /\ RowOut(i).valor_total_realizado = Num(0)

C3_Witness ==
    /\ CalcDone
    /\ \E i \in CalcRows :
          /\ RowIn(i).etapa = Txt(StrLower(Realizado))
          /\ RowIn(i).convidados_presentes.v > 0
          /\ RowIn(i).kids_presentes.v > 0
          /\ RowIn(i).preco.v > 0
          /\ RowIn(i).valor_extra.v > 0
          /\ RowOut(i).total_convidados_presentes = Num(0)
          /\ RowOut(i).valor_total_realizado = Num(0)

\* C5: every record gets total_convidados_previsto = convidados_previstos +
\* kids, whatever a column of that name held before.
C5_ForecastGuestsRecomputed ==
    CalcDone =>
        \A i \in CalcRows :
            RowOut(i).total_convidados_previsto =
                Num(RowIn(i).convidados_previstos.v + RowIn(i).kids.v)

C5_Witness ==
    /\ CalcDone
    /\ \E i \in CalcRows :
          /\ CellEq(RowIn(i).total_convidados_previsto, Num(Stale))
          /\ RowIn(i).convidados_previstos.v > 0
          /\ RowIn(i).kids.v > 0
          /\ RowOut(i).total_convidados_previsto.v # Stale

\* C6: every record gets valor_total_previsto = preco*convidados_previstos +
\* preco_kids*kids, whatever its stage, its flag and the value it carried.
C6_ForecastValueRecomputed ==
    CalcDone =>
        \A i \in CalcRows :
            RowOut(i).valor_total_previsto =
                Num(RowIn(i).preco.v * RowIn(i).convidados_previstos.v
                    + RowIn(i).preco_kids.v * RowIn(i).kids.v)

C6_Witness ==
    /\ CalcDone
    /\ \E i \in CalcRows :
          /\ ~CellEq(RowIn(i).etapa, Txt(Realizado))
          /\ CellEq(RowIn(i).manter_total_previsto, Bool(FALSE))
          /\ CellEq(RowIn(i).valor_total_previsto, Num(Stale))
          /\ RowIn(i).kids.v > 0
          /\ RowIn(i).preco.v # RowIn(i).preco_kids.v
          /\ RowOut(i).valor_total_previsto.v > 0

-----------------------------------------------------------------------------
(* The pass's contract, checked under SpecPass *)

\* the current table has been typed (lines 162-186 ran to their end)
Typed ==
    pc \in {"fetch_legacy", "reconcile", "fill", "calc", "strings", "menu",
            "sort", "returned"}

\* the two tables have been concatenated and nothing else done yet
Merged == pc = "fill"

\* the calculator has run on the merged table and nothing else since
Calculated == pc = "strings"

\* the rows the legacy source gave and the rows the current source gave
nLegacy == Len(legacy_src.table.rows)
nCurrent == Len(sheet.rows)

\* the raw retain-forecast cell of current row j is the literal "FALSE"
RawFalse(j) == sheet.rows[j].manter_total_previsto = Txt(<<"F","A","L","S","E">>)

\* C4: in the current table the flag is false exactly when the raw cell is
\* the literal "FALSE", and a Realizado record's valor_total_realizado is the
\* one of the branch of that boolean.
C4_FlagTrueUnlessFALSE ==
    /\ Typed =>
          \A j \in 1..nCurrent :
              df.rows[j].manter_total_previsto = Bool(~RawFalse(j))
    /\ Calculated =>
          \A j \in 1..nCurrent :
              LET r == calc_in.rows[nLegacy + j]
                  out == df_thai.rows[nLegacy + j]
              IN  r.etapa = Txt(Realizado) =>
                      out.valor_total_realizado =
                          IF RawFalse(j)
                          THEN Num(r.convidados_presentes.v * r.preco.v
                                   + r.kids_presentes.v * r.preco_kids.v
                                   + r.valor_extra.v)
                          ELSE Num(r.preco.v * r.convidados_previstos.v
                                   + r.preco_kids.v * r.kids.v
                                   + r.valor_extra.v)

\* a run in which an empty cell and a "FALSE" cell both reach the calculator
\* on Realizado records whose two branches give different values
C4_Witness ==
    /\ Calculated
    /\ \E j, k \in 1..nCurrent :
          /\ sheet.rows[j].manter_total_previsto = Txt(<<>>)
          /\ RawFalse(k)
          /\ calc_in.rows[nLegacy + j].etapa = Txt(Realizado)
          /\ calc_in.rows[nLegacy + k].etapa = Txt(Realizado)
          /\ df_thai.rows[nLegacy + j].valor_total_realizado.v
                # choice2(calc_in.rows[nLegacy + j])
          /\ df_thai.rows[nLegacy + k].valor_total_realizado.v
                # df_thai.rows[nLegacy + k].valor_total_previsto.v
                  + calc_in.rows[nLegacy + k].valor_extra.v

\* C7: the merged table has len(legacy) + len(current) rows, the legacy rows
\* first, each source in its own order.
C7_MergeLegacyThenCurrent ==
    /\ pc \in {"fill", "calc", "strings", "menu", "sort", "returned"}
          => Len(df_thai.rows) = nLegacy + nCurrent
    /\ Merged =>
          /\ \A i \in 1..nLegacy :
                /\ df_thai.rows[i].resp = legacy_src.table.rows[i].resp_evento
                /\ df_thai.rows[i].cardapio = legacy_src.table.rows[i].cardapio
                /\ df_thai.rows[i].convidados_previstos
                      = legacy_src.table.rows[i].qtde_convidados
          /\ \A j \in 1..nCurrent :
                /\ df_thai.rows[nLegacy + j] = df.rows[j]
                /\ df_thai.rows[nLegacy + j].etapa = sheet.rows[j].etapa

C7_Witness ==
    /\ Merged
    /\ nLegacy = 2
    /\ nCurrent = 2
    /\ legacy_src.table.rows[1] # legacy_src.table.rows[2]
    /\ sheet.rows[1] # sheet.rows[2]
    /\ df_thai.rows[1].resp = legacy_src.table.rows[1].resp_evento
    /\ df_thai.rows[4] = df.rows[2]

\* the example of the specification: three legacy rows without the flag
\* column, two current rows
ExampleLegacy ==
    [cols |-> LegacyHeader,
     rows |-> [i \in 1..3 |-> Restrict(LegacyRows[IF i = 3 THEN 1 ELSE i], LegacyHeader)]]

ExampleCurrent ==
    [cols |-> columns_manter, rows |-> <<CurrentRows[1], CurrentRows[2]>>]

ExampleMerged ==
    Concat(PrepareLegacy(ExampleLegacy).tbl, TypeCurrent(ExampleCurrent).tbl)

\* C8: after reconciliation every legacy row has the flag true, whether or
\* not the legacy sheet had the column, and every current row keeps its flag.
C8_LegacyRowsRetainForecast ==
    /\ Len(ExampleMerged.rows) = 5
    /\ \A i \in 1..3 : ExampleMerged.rows[i].manter_total_previsto = Bool(TRUE)
    /\ pc \in {"fill", "calc", "strings"} =>
          /\ \A i \in 1..nLegacy :
                df_thai.rows[i].manter_total_previsto = Bool(TRUE)
          /\ \A j \in 1..nCurrent :
                /\ df_thai.rows[nLegacy + j].manter_total_previsto
                      = df.rows[j].manter_total_previsto
                /\ df_thai.rows[nLegacy + j].manter_total_previsto
                      = Bool(~RawFalse(j))

\* a legacy sheet that has the column and says "FALSE", merged with a current
\* row whose flag is false
C8_Witness ==
    /\ Merged
    /\ "manter_total_previsto" \in legacy_src.table.cols
    /\ \E i \in 1..nLegacy :
          /\ legacy_src.table.rows[i].manter_total_previsto
                = Txt(<<"F","A","L","S","E">>)
          /\ df_thai.rows[i].manter_total_previsto = Bool(TRUE)
    /\ \E j \in 1..nCurrent :
          df_thai.rows[nLegacy + j].manter_total_previsto = Bool(FALSE)

\* C9: whatever makes the legacy source unavailable, the run does not end in
\* the fetch's error: it goes on with an empty legacy table and returns the
\* dataset of the current rows alone.
C9_LegacyUnavailableTolerated ==
    legacy_src.outcome # "ok" =>
        /\ pc = "error" => err \notin FetchFailures
        /\ pc \in {"reconcile", "fill"} => IsEmpty(df_anos_ant)
        /\ pc = "returned" => Len(df_thai.rows) = nCurrent

\* the label of row i as the allow-list test of line 308 reads it
LabelBeforeTest(i) ==
    MenuLabel(CleanCell("cardapio", calc_in.rows[i].cardapio).v)

\* C10: every record of the returned dataset has an allow-listed cardapio
\* (compared in lower case) or "Especial"; a label that is not equal to an
\* allow-listed one, also one that holds one as a substring, is "Especial".
C10_MenuClosedSet ==
    /\ pc \in {"sort", "returned"} =>
          \A i \in 1..Len(df_thai.rows) :
              /\ df_thai.rows[i].cardapio.t = "txt"
              /\ \/ df_thai.rows[i].cardapio.v = <<"E","s","p","e","c","i","a","l">>
                 \/ StrLower(df_thai.rows[i].cardapio.v) \in menu_completo
    /\ pc = "sort" =>
          \A i \in 1..Len(df_thai.rows) :
              df_thai.rows[i].cardapio.v =
                  IF StrLower(LabelBeforeTest(i)) \in menu_completo
                  THEN LabelBeforeTest(i)
                  ELSE <<"E","s","p","e","c","i","a","l">>

\* a label that holds "phuket" without being it became "Especial", next to a
\* label that stayed
C10_Witness ==
    /\ pc = "sort"
    /\ \E i, k \in 1..Len(df_thai.rows) :
          /\ Contains(StrLower(LabelBeforeTest(i)), <<"p","h","u","k","e","t">>)
          /\ StrLower(LabelBeforeTest(i)) # <<"p","h","u","k","e","t">>
          /\ df_thai.rows[i].cardapio.v = <<"E","s","p","e","c","i","a","l">>
          /\ df_thai.rows[k].cardapio.v = <<"K","o","h"," ","L","a","n","t","a">>

\* the label of row i as the canonicalizer of lines 280-309 receives it
LabelBeforeMenu(i) == CleanCell("cardapio", calc_in.rows[i].cardapio).v

\* C11: the menu canonicalizer is idempotent: run on the table it produced
\* it gives every record the label it already has.
C11_CanonicalizerIdempotent ==
    /\ pc = "menu" =>
          Canonicalize(Canonicalize(df_thai)) = Canonicalize(df_thai)
    /\ pc \in {"sort", "returned"} =>
          \A i \in 1..Len(df_thai.rows) :
              CanonMenu(df_thai.rows[i].cardapio.v) = df_thai.rows[i].cardapio.v

\* the first application changed two labels, one into a listed label and one
\* into "Especial"
C11_Witness ==
    /\ pc = "sort"
    /\ \E i, k \in 1..Len(df_thai.rows) :
          /\ df_thai.rows[i].cardapio.v # LabelBeforeMenu(i)
          /\ df_thai.rows[i].cardapio.v = <<"K","o","h"," ","L","a","n","t","a">>
          /\ df_thai.rows[k].cardapio.v # LabelBeforeMenu(k)
          /\ df_thai.rows[k].cardapio.v = <<"E","s","p","e","c","i","a","l">>

\* the run has returned its dataset
HasReturned == pc = "returned"

\* C15: every record of the returned dataset has a concrete contact date and
\* a concrete event date, also a record whose two dates were both missing.
C15_DatesConcrete ==
    HasReturned =>
        \A i \in 1..Len(df_thai.rows) :
            /\ df_thai.rows[i].data_evento.t = "date"
            /\ df_thai.rows[i].data_contato.t = "date"

\* an expected column is absent from the current table
ColumnMissing == ~IsEmpty(sheet) /\ ~(columns_manter \subseteq sheet.cols)

SourcesRead ==
    /\ columns_manter \subseteq sheet.cols
    /\ legacy_src.outcome \in {"ok", "no_secrets"}

\* C17: a cell that does not parse never ends the run: with its columns
\* present and its sources read the run returns, one record for every row of
\* the current and of the legacy table.
C17_ParseFailuresTolerated ==
    SourcesRead =>
        /\ pc # "error"
        /\ HasReturned => Len(df_thai.rows) = nLegacy + nCurrent

\* the retain-forecast flag as the returned dataset shows it
ShownTrue == Txt(<<"T","r","u","e">>)

\* C25: in the returned dataset every record whose stage is "Realizado" has
\* total_convidados_presentes = convidados_presentes + kids_presentes and the
\* realized value its retain-forecast flag gives it, whatever the letter case
\* and the surrounding blanks of its raw stage cell were.
C25_RealizadoTotals ==
    HasReturned =>
        \A i \in 1..Len(df_thai.rows) :
            df_thai.rows[i].etapa = Txt(Realizado) =>
                /\ df_thai.rows[i].total_convidados_presentes.v
                      = df_thai.rows[i].convidados_presentes.v
                            + df_thai.rows[i].kids_presentes.v
                /\ df_thai.rows[i].valor_total_realizado.v
                      = IF df_thai.rows[i].manter_total_previsto = ShownTrue
                        THEN choice1(df_thai.rows[i])
                        ELSE choice2(df_thai.rows[i])

\* the current source gave a table with rows, every expected column and
\* numbers that parse
WholeInput ==
    /\ current_src.outcome = "ok"
    /\ ~IsEmpty(current_src.table)
    /\ columns_manter \subseteq current_src.table.cols
    /\ \A i \in 1..Len(current_src.table.rows) :
           ~TypeRowFails(current_src.table.rows[i])

\* C26: for a non-empty current table with every expected column and only
\* parseable cells run_full_etl does not end in an error, and what it returns
\* has one record for every current and every legacy row.
C26_WholePassRuns ==
    WholeInput =>
        /\ pc # "error"
        /\ HasReturned =>
              Len(df_thai.rows) = Len(current_src.table.rows) + nLegacy

\* C27: after reconciliation the merged table has no column outside
\* columns_manter, whatever the legacy table was, one with a header and no
\* rows included.
C27_MergedColumnsCanonical ==
    pc = "fill" => df_thai.cols \subseteq columns_manter

\* the current source gave an empty table: no rows, or no credentials file
NothingCurrent ==
    /\ current_src.outcome \in {"ok", "no_secrets"}
    /\ current_src.table.rows = <<>>

\* C29: when the current source gives an empty table run_full_etl returns
\* that table at once: no step of the pass runs, the legacy table is not
\* fetched and no error is raised.
C29_EmptyCurrentReturnedAtOnce ==
    NothingCurrent =>
        /\ pc \in {"extract", "returned"}
        /\ err = "none"
        /\ df_anos_ant = EmptyTable /\ calc_in = EmptyTable /\ df = EmptyTable
        /\ HasReturned => df_thai = current_src.table

C29_Witness ==
    /\ HasReturned
    /\ current_src.outcome = "ok"
    /\ current_src.table.cols # {}
    /\ current_src.table.rows = <<>>

\* the day a is not later than the day b
DateLE(a, b) ==
    \/ a.y < b.y
    \/ a.y = b.y /\ a.m < b.m
    \/ a.y = b.y /\ a.m = b.m /\ a.d <= b.d

-----------------------------------------------------------------------------
(* The analysis layer's contract, checked under SpecView *)

\* the last call was run_filter and it returned a table
Filtered_ok == call.op = "run_filter" /\ call.err = "none"

\* the toggles of the last run_filter call
filter_place_arg == call.args[1]
filter_stage_arg == call.args[2]
filter_year_arg == call.args[3]

\* a criterion is active: its toggle is on and its selection is given
PlaceActive == filter_place_arg /\ filter_class.place_select.given
                  /\ filter_class.place_select.items # <<>>
StageActive == filter_stage_arg /\ filter_class.stage_select.given
                  /\ filter_class.stage_select.items # <<>>
YearActive == filter_year_arg /\ filter_class.year_select.given

\* row r satisfies every active criterion
Matches(r) ==
    /\ PlaceActive =>
          /\ r["Local"].t = "txt"
          /\ \E k \in 1..Len(filter_class.place_select.items) :
                filter_class.place_select.items[k] = r["Local"].v
    /\ StageActive =>
          /\ r["Etapa"].t = "txt"
          /\ \E k \in 1..Len(filter_class.stage_select.items) :
                filter_class.stage_select.items[k] = r["Etapa"].v
    /\ YearActive => r["Ano evento"] = Num(filter_class.year_select.v)

\* C12: run_filter returns the rows of its input that satisfy every active
\* criterion, all of them and no other, in the order and with the
\* multiplicity they have in the input.
C12_FilterExactRows ==
    Filtered_ok =>
        /\ Len(ret) = 1
        /\ ret[1].cols = view.cols
        /\ ret[1].rows = SelectSeq(view.rows, Matches)

\* the three criteria were active on a table of two rows; one row stayed
C12_Witness ==
    /\ Filtered_ok
    /\ PlaceActive /\ StageActive /\ YearActive
    /\ Len(view.rows) = 2
    /\ Len(ret[1].rows) = 1

\* the table run_filter returns for the table t, the selections of
\* filter_class and the three toggles
FilterOf(t, place, stage, year) ==
    Output(run_filter(<<t>>, 1, filter_class, place, stage, year))

\* the example of the specification: ten rows, six at one venue and four at
\* the other, the venue selected and no stage selection
ExampleTen ==
    [cols |-> {"Local", "Etapa", "Ano evento"},
     rows |-> [i \in 1..10 |->
                 [c \in {"Local", "Etapa", "Ano evento"} |->
                     CASE c = "Local" -> Txt(IF i \in {1, 3, 4, 6, 8, 9}
                                             THEN <<"A">> ELSE <<"B">>)
                       [] c = "Etapa" -> Txt(Realizado)
                       [] c = "Ano evento" -> Num(2026)]],
     cat |-> NoCategory]

ExampleTenFiltered ==
    run_filter(<<ExampleTen>>, 1,
               [place_select |-> List(<< <<"A">> >>), stage_select |-> None,
                year_select |-> Year(2026)],
               TRUE, TRUE, TRUE)

\* C13: a criterion whose toggle is on and whose selection is empty or None
\* is announced by name and removes no row (the call returns what it returns
\* with that toggle off); no other criterion is announced.
C13_EmptySelectionAnnounced ==
    /\ Len(Output(ExampleTenFiltered).rows) = 6
    /\ ExampleTenFiltered.log = <<"filter_stage">>
    /\ call.op = "run_filter" =>
          /\ (\E k \in 1..Len(log) : log[k] = "filter_place")
                <=> (filter_place_arg /\ ~PlaceActive)
          /\ (\E k \in 1..Len(log) : log[k] = "filter_stage")
                <=> (filter_stage_arg /\ ~StageActive
                     /\ (PlaceActive => "Local" \in view.cols))
          /\ (\E k \in 1..Len(log) : log[k] = "filter_year")
                <=> (filter_year_arg /\ ~YearActive
                     /\ (PlaceActive => "Local" \in view.cols)
                     /\ (StageActive => "Etapa" \in view.cols))
          /\ \A k \in 1..Len(log) :
                log[k] \in {"filter_place", "filter_stage", "filter_year"}
    /\ Filtered_ok =>
          /\ (filter_place_arg /\ ~PlaceActive) =>
                ret[1] = FilterOf(view, FALSE, filter_stage_arg, filter_year_arg)
          /\ (filter_stage_arg /\ ~StageActive) =>
                ret[1] = FilterOf(view, filter_place_arg, FALSE, filter_year_arg)
          /\ (filter_year_arg /\ ~YearActive) =>
                ret[1] = FilterOf(view, filter_place_arg, filter_stage_arg, FALSE)

\* the venue criterion removed a row, the stage criterion was on with an
\* empty list: it was announced, the venue criterion was not
C13_Witness ==
    /\ Filtered_ok
    /\ PlaceActive
    /\ filter_stage_arg /\ filter_class.stage_select = List(<<>>)
    /\ Len(view.rows) = 2 /\ Len(ret[1].rows) = 1
    /\ \E k \in 1..Len(log) : log[k] = "filter_stage"
    /\ \A k \in 1..Len(log) : log[k] # "filter_place"

\* C14: run_filter applied to what it returned returns the same rows, and
\* venue then stage, stage then venue and both at once return the same rows.
C14_FilterIdempotentCommutative ==
    Filtered_ok =>
        /\ FilterOf(ret[1], filter_place_arg, filter_stage_arg, filter_year_arg).rows
              = ret[1].rows
        /\ (filter_place_arg /\ filter_stage_arg /\ ~filter_year_arg) =>
              /\ FilterOf(FilterOf(view, TRUE, FALSE, FALSE), FALSE, TRUE, FALSE).rows
                    = ret[1].rows
              /\ FilterOf(FilterOf(view, FALSE, TRUE, FALSE), TRUE, FALSE, FALSE).rows
                    = ret[1].rows

\* venue and stage were both active and each removed a row the other keeps
C14_Witness ==
    /\ Filtered_ok
    /\ filter_place_arg /\ filter_stage_arg /\ ~filter_year_arg
    /\ PlaceActive /\ StageActive
    /\ Len(view.rows) = 2
    /\ Len(FilterOf(view, TRUE, FALSE, FALSE).rows) = 1
    /\ Len(FilterOf(view, FALSE, TRUE, FALSE).rows) = 1
    /\ ret[1].rows = <<>>

\* the last call was process_data and it returned a table
Processed_ok == call.op = "process_data" /\ call.err = "none"

\* the first row of the input that shows the stage of row i
FirstRowOf(i) ==
    CHOOSE k \in 1..i :
        /\ view.rows[k].etapa = view.rows[i].etapa
        /\ \A j \in 1..(k - 1) : view.rows[j].etapa # view.rows[i].etapa

\* C18: process_data gives equal stages equal codes and different stages
\* different codes, and a stage first seen earlier in the rows a smaller code.
C18_StageCodesFirstSeen ==
    Processed_ok =>
        \A i, j \in 1..Len(view.rows) :
            /\ (view.rows[i].etapa = view.rows[j].etapa)
                  <=> (ret[1].rows[i]["Cod etapa"] = ret[1].rows[j]["Cod etapa"])
            /\ FirstRowOf(i) < FirstRowOf(j)
                  => ret[1].rows[i]["Cod etapa"].v < ret[1].rows[j]["Cod etapa"].v

\* the last call was dre or _gerar_dataframes_analiticos and it returned
\* its reports
Reported_ok ==
    call.op \in {"dre", "_gerar_dataframes_analiticos"} /\ call.err = "none"

\* the records of the period the reports of the last call are made for
PeriodRows ==
    IF call.op = "dre" THEN InMonthNumber(view, call.args[2]).rows
    ELSE InPeriod(view, MonthsBefore(call.args[3], call.args[1])).rows

\* the columns of the period report k (1 values, 2 guests) of the last call:
\* type and value column, forecast and other metric, the other type's name
ReportShape(k) ==
    LET dre_names == call.op = "dre"
    IN  IF k = 1
        THEN [tipo |-> IF dre_names THEN "tipo" ELSE "Tipo",
              value |-> IF dre_names THEN "valor total" ELSE "Valor total",
              forecast |-> "Valor total previsto",
              other |-> "Valor total realizado", other_name |-> Txt(Realizado)]
        ELSE [tipo |-> IF dre_names THEN "tipo" ELSE "Tipo",
              value |-> IF dre_names THEN "total convidados" ELSE "Total convidados",
              forecast |-> "Total convidados previsto",
              other |-> "Total convidados presentes", other_name |-> Txt(Presentes)]

\* the rows of a report for one group and one type
ReportRows(report, shape, local, etapa, tipo) ==
    { n \in 1..Len(report.rows) :
        /\ report.rows[n]["Local"] = local
        /\ report.rows[n]["Etapa"] = etapa
        /\ report.rows[n][shape.tipo] = tipo }

\* the records of the period in one group
RecordsOf(local, etapa) ==
    SelectSeq(PeriodRows, LAMBDA r : r["Local"] = local /\ r["Etapa"] = etapa)

\* the report has one row of the type for the group, holding the group's sum
OneRowWithSum(report, shape, local, etapa, tipo, col) ==
    /\ Cardinality(ReportRows(report, shape, local, etapa, tipo)) = 1
    /\ \A n \in ReportRows(report, shape, local, etapa, tipo) :
           report.rows[n][shape.value] = Num(SumOf(RecordsOf(local, etapa), col))

\* C19: in the period value report and the period guest report every group
\* (Local, Etapa) of the period's records has one row of type "Previsto" and
\* one row of the other type, each with the group's sum; the report has no
\* rows of other groups, and each metric's total over the report is its total
\* over the period's records.
C19_PeriodReportsBySum ==
    Reported_ok =>
        \A k \in {1, 2} :
            /\ \A i \in 1..Len(PeriodRows) :
                   /\ OneRowWithSum(ret[k], ReportShape(k), PeriodRows[i]["Local"],
                                    PeriodRows[i]["Etapa"], Txt(Previsto),
                                    ReportShape(k).forecast)
                   /\ OneRowWithSum(ret[k], ReportShape(k), PeriodRows[i]["Local"],
                                    PeriodRows[i]["Etapa"], ReportShape(k).other_name,
                                    ReportShape(k).other)
            /\ \A n \in 1..Len(ret[k].rows) :
                   /\ RecordsOf(ret[k].rows[n]["Local"], ret[k].rows[n]["Etapa"]) # <<>>
                   /\ ret[k].rows[n][ReportShape(k).tipo]
                          \in {Txt(Previsto), ReportShape(k).other_name}
            /\ SumOf(SelectSeq(ret[k].rows,
                               LAMBDA r : r[ReportShape(k).tipo] = Txt(Previsto)),
                     ReportShape(k).value)
                   = SumOf(PeriodRows, ReportShape(k).forecast)
            /\ SumOf(SelectSeq(ret[k].rows,
                               LAMBDA r : r[ReportShape(k).tipo] = ReportShape(k).other_name),
                     ReportShape(k).value)
                   = SumOf(PeriodRows, ReportShape(k).other)

\* C20: no call of run_filter, process_data, dre, create_table or
\* _gerar_dataframes_analiticos changes the table it is given: after every
\* call the caller's table has the rows, columns and cells it had before.
C20_InputsNotMutated == [][view' = view]_vars

\* a call that writes into its working table has returned, and the caller
\* holds a table with rows
C20_Witness ==
    /\ call.op \in {"process_data", "create_table"}
    /\ call.err = "none"
    /\ view.rows # <<>>
    /\ ret[1] # view

\* the configuration of a call: the toggles of run_filter; for dre the
\* pandas that is installed.  The day of the call is no part of it
Configuration(c) ==
    IF c.op = "dre" THEN <<c.args[1]>> ELSE c.args

\* C21: run_filter and dre are functions of their table and configuration:
\* a call that follows a call of the same operation on the same table with
\* the same configuration returns what that call returned, whenever it is
\* made.
C21_SameInputsSameOutputs ==
    [][ (/\ call.op \in {"run_filter", "dre"}
         /\ call'.op = call.op
         /\ view' = view /\ filter_class' = filter_class
         /\ Configuration(call') = Configuration(call))
            => (ret' = ret /\ log' = log /\ call'.err = call.err) ]_vars

\* the last call was dre and it returned its reports
Dre_ok == call.op = "dre" /\ call.err = "none"

\* the records of the calendar month before the day of the last call
MonthBeforeRows == InPeriod(view, MonthsBefore(call.args[2], 1)).rows

\* the total of a value column over the rows of one type of a report
TotalOfType(report, tipo, name, value) ==
    SumOf(SelectSeq(report.rows, LAMBDA r : r[tipo] = name), value)

\* C22: the three period reports of dre are made of the records whose event
\* date lies in the calendar month before the day of the call, and of no
\* other: their totals are the totals of those records and their counts add
\* up to the number of those records.
C22_PeriodIsPreviousCalendarMonth ==
    Dre_ok =>
        /\ TotalOfType(ret[1], "tipo", Txt(Previsto), "valor total")
              = SumOf(MonthBeforeRows, "Valor total previsto")
        /\ TotalOfType(ret[1], "tipo", Txt(Realizado), "valor total")
              = SumOf(MonthBeforeRows, "Valor total realizado")
        /\ TotalOfType(ret[2], "tipo", Txt(Previsto), "total convidados")
              = SumOf(MonthBeforeRows, "Total convidados previsto")
        /\ TotalOfType(ret[2], "tipo", Txt(Presentes), "total convidados")
              = SumOf(MonthBeforeRows, "Total convidados presentes")
        /\ SumOf(ret[3].rows, "Contagem Etapa") = Len(MonthBeforeRows)
        /\ \A n \in 1..Len(ret[3].rows) :
               ret[3].rows[n]["Contagem Etapa"].v > 0 =>
                   \E i \in 1..Len(MonthBeforeRows) :
                       /\ MonthBeforeRows[i]["Local"] = ret[3].rows[n]["Local"]
                       /\ MonthBeforeRows[i]["Etapa"] = ret[3].rows[n]["Etapa"]

\* the rows of the count report for one group
CountRows(etapa, local) ==
    { n \in 1..Len(ret[3].rows) :
        ret[3].rows[n]["Etapa"] = etapa /\ ret[3].rows[n]["Local"] = local }

\* C23: the count report of dre has, for every group (Etapa, Local) of the
\* period's records, one row with the number of the group's records, and no
\* row of another group; it has no metric column and its counts add up to
\* the number of records of the period.
C23_CountReportByGroup ==
    Dre_ok =>
        /\ ret[3].cols = {"Etapa", "Local", "Contagem Etapa"}
        /\ \A i \in 1..Len(PeriodRows) :
               /\ Cardinality(CountRows(PeriodRows[i]["Etapa"], PeriodRows[i]["Local"])) = 1
               /\ \A n \in CountRows(PeriodRows[i]["Etapa"], PeriodRows[i]["Local"]) :
                      ret[3].rows[n]["Contagem Etapa"]
                          = Num(Len(RecordsOf(PeriodRows[i]["Local"],
                                              PeriodRows[i]["Etapa"])))
        /\ \A n \in 1..Len(ret[3].rows) :
               RecordsOf(ret[3].rows[n]["Local"], ret[3].rows[n]["Etapa"]) # <<>>
        /\ SumOf(ret[3].rows, "Contagem Etapa") = Len(PeriodRows)

\* the columns run_filter, dre and create_table read
Downstream ==
    {"Local", "Etapa", "Ano evento", "Data evento", "Valor total previsto",
     "Valor total realizado", "Total convidados previsto",
     "Total convidados presentes", "Horario inicio", "Resp", "Empresa", "Contato"}

\* a name in display form: no underscore, its first letter upper-case and no
\* other
DisplayForm(cs) ==
    /\ \A k \in 1..Len(cs) : cs[k] # "_"
    /\ cs # <<>> => ~IsLower(cs[1])
    /\ \A k \in 2..Len(cs) : ~IsUpper(cs[k])

\* the name in display form of the column c
ShownNames ==
    [c \in DOMAIN Spelling |->
        CHOOSE d \in DOMAIN Spelling :
            /\ DisplayForm(Spelling[d])
            /\ StrLower(Spelling[d]) = UnderscoreToBlank(StrLower(Spelling[c]))]

Shown(c) == ShownNames[c]

\* process_data has given the table of the caller its display columns: every
\* column under its display name with its cells, the four added columns
\* likewise, and so every column read downstream
Displayed ==
    /\ call.err = "none"
    /\ ret[1].cols = { Shown(c) : c \in view.cols
                           \cup {"cod_etapa", "ano_evento", "mes_evento", "dia_semana"} }
    /\ Cardinality(ret[1].cols) = Cardinality(view.cols) + 4
    /\ Len(ret[1].rows) = Len(view.rows)
    /\ \A k \in 1..Len(view.rows) : \A c \in view.cols :
           ret[1].rows[k][Shown(c)] = view.rows[k][c]
    /\ Downstream \subseteq ret[1].cols

\* C24 as stated: for every dataset run_full_etl returns, process_data gives
\* every column its display name, adds the four derived columns in that form,
\* and every column read downstream exists in its output.
C24_DisplayColumns ==
    (call.op = "process_data" /\ view \in Datasets) => Displayed

\* C24 amended: the same for every dataset of a whole pass, that is every
\* non-empty dataset run_full_etl returns.
C24_DisplayColumnsOfFullDataset ==
    (call.op = "process_data" /\ view \in FullDatasets) => Displayed

C24_Witness ==
    /\ call.op = "process_data" /\ view \in FullDatasets
    /\ Len(view.rows) = 2
    /\ "Horario inicio" \in ret[1].cols /\ "Cod etapa" \in ret[1].cols

\* the rows of the accumulated report for one year, venue and type
AccumulatedRows(ano, local, tipo) ==
    { n \in 1..Len(ret[4].rows) :
        /\ ret[4].rows[n]["Ano evento"] = ano
        /\ ret[4].rows[n]["Local"] = local
        /\ ret[4].rows[n]["tipo"] = tipo }

\* the records of the table of one year and venue
RecordsOfYear(ano, local) ==
    SelectSeq(view.rows, LAMBDA r : r["Ano evento"] = ano /\ r["Local"] = local)

\* the accumulated report has one row of the type for the year and venue,
\* holding the total of the column over their records
OneAccumulatedRow(ano, local, tipo, col) ==
    /\ Cardinality(AccumulatedRows(ano, local, tipo)) = 1
    /\ \A n \in AccumulatedRows(ano, local, tipo) :
           ret[4].rows[n]["valor total acumulado"]
               = Num(SumOf(RecordsOfYear(ano, local), col))

\* C28: the accumulated report of dre has, for every year and venue of the
\* data, one row of type "Previsto" with the total forecast value and one row
\* of type "Realizado" with the total realized value of the records of that
\* year and venue.
C28_AccumulatedByYearAndVenue ==
    Dre_ok =>
        \A i \in 1..Len(view.rows) :
            /\ OneAccumulatedRow(view.rows[i]["Ano evento"], view.rows[i]["Local"],
                                 Txt(Previsto), "Valor total previsto")
            /\ OneAccumulatedRow(view.rows[i]["Ano evento"], view.rows[i]["Local"],
                                 Txt(Realizado), "Valor total realizado")

=============================================================================
